---- MODULE Spec2Model ----
(***************************************************************************)
(* Device access layer of the UDP driver for the VME-EVG230/RF event       *)
(* generator (src/evg.c): the per-device mutex, the register exchanges     *)
(* readreg / writereg / writecheck with their retransmission loop, and the *)
(* evg_* operations composed from them, run by concurrent threads against  *)
(* a card reached through a datagram network.                              *)
(***************************************************************************)
EXTENDS Integers, Sequences, FiniteSets, TLC

(***************************************************************************)
(* Bounds of the model.                                                    *)
(***************************************************************************)
\* datagrams (replies) the network holds per device, in flight or buffered
MaxInFlight == 2
\* exchanges remembered per device in the exchange log
HistLen == 8
\* the configure lines of a start-up script
MaxLines == 4
MaxRequests == 2

(***************************************************************************)
(* Program constants.                                                      *)
(***************************************************************************)
NUMBER_OF_RETRIES == 3
NUMBER_OF_DEVICES == 10
NAME_LENGTH == 30
USHRT_MAX == 65535
MESSAGE_SIZE == 12
ACCESS_READ == 1
ACCESS_WRITE == 2
REGISTER_CONTROL == 0
REGISTER_EVENT_ENABLE == 2
REGISTER_SEQ_CLOCK_SEL1 == 36
REGISTER_SEQ_CLOCK_SEL2 == 38
REGISTER_AC_ENABLE == 40
REGISTER_MXC_CONTROL == 42
REGISTER_MXC_PRESCALER == 44
MXC_CONTROL_HIGH_WORD == 8
NUMBER_OF_COUNTERS == 8
REGISTER_RF_CONTROL == 64
RF_CONTROL_EXTERNAL == 448
RF_SOURCE_INTERNAL == 0
RF_SOURCE_EXTERNAL == 1
\* the header evg.c is compiled with is not part of src/; the dual-sequencer
\* register map and bit fields below are those of the specification (4.1, 4.5)
REGISTER_SEQ_ADDRESS0 == 68
REGISTER_SEQ_CODE0 == 70
REGISTER_SEQ_TIME0 == 72
REGISTER_SEQ_ADDRESS1 == 80
REGISTER_SEQ_CODE1 == 82
REGISTER_SEQ_TIME1 == 84
RF_CONTROL_DIVIDER_MASK == 63
NUMBER_OF_SEQUENCERS == 2
NUMBER_OF_ADDRESSES == 2048
CONTROL_ENABLE == 28673
CONTROL_DISABLE == 61441
EVENT_ENABLE_SEQUENCER0 == 4
EVENT_ENABLE_SEQUENCER1 == 2
AC_ENABLE_SYNC == 4096
AC_ENABLE_DIVIDER_MASK == 255
AC_ENABLE_SEQ0 == 16384
AC_ENABLE_SEQ1 == 32768
TRIGGER_SOFT == 0
TRIGGER_AC == 1
AC_SOURCE_EVENT == 0
AC_SOURCE_MXC7 == 1

(***************************************************************************)
(* 16-bit register arithmetic.                                             *)
(***************************************************************************)
RECURSIVE BitAnd(_, _)
BitAnd(a, b) ==
    IF a = 0 \/ b = 0 THEN 0
    ELSE (a % 2) * (b % 2) + 2 * BitAnd(a \div 2, b \div 2)

BitOr(a, b) == a + b - BitAnd(a, b)

\* ~mask within a uint16_t
\* an and-not that clears nothing
BitClear_None(a, mask) == a

BitClear(a, mask) == a - BitAnd(a, mask)

\* conversion of an int to uint16_t (parameter passing to writereg/writecheck)
U16(x) == x % 65536

\* data | x for a uint16_t data and an int x >= -1, converted to uint16_t
OrU16(data, x) == IF x < 0 THEN 65535 ELSE U16(BitOr(data, x))

(***************************************************************************)
(* The model's universe.                                                   *)
(***************************************************************************)
Threads == {1, 2}
Devs == {1, 2}
NoThread == 0
RamAddrs == {0, 1, 2047}

VARIABLES
    th,       \* per thread: the operation it runs, its locals and its position
    mutex,    \* per device: NoThread or the thread holding device->mutex
    card,     \* per device: the registers and sequence RAM of the card
    flight,   \* per device: replies the card sent that the driver has not read
              \* yet (on their way, or waiting in the socket's receive buffer)
    hist,     \* per device: the exchanges completed since the mutex was last
              \* released, newest first
    last,     \* per device: how the newest of them went (attempts, reply)
    devices,  \* devices[]: the device table, slot i of the model being
              \* devices[i - 1] of the code
    deviceCount,  \* the number of configured devices
    shell,    \* the start-up thread (the IOC shell, then iocInit): the
              \* function it called last, with its arguments and result
    record    \* a record of the database with its device support: dpvt, the
              \* private structure, PACT and the worker thread of a request

vars == <<th, mutex, card, flight, hist, last, devices, deviceCount, shell,
          record>>

(***************************************************************************)
(* The card: a register file with two sequence RAMs reached through the    *)
(* address latches SEQ_ADDRESS0/1.  It is hardware, not code of src/; its  *)
(* behaviour is the one the specification describes (4.1, 4.3, glossary).  *)
(***************************************************************************)
PlainRegs == {REGISTER_CONTROL, REGISTER_EVENT_ENABLE, REGISTER_SEQ_CLOCK_SEL1,
              REGISTER_SEQ_CLOCK_SEL2, REGISTER_AC_ENABLE, REGISTER_MXC_CONTROL,
              REGISTER_MXC_PRESCALER, REGISTER_RF_CONTROL,
              REGISTER_SEQ_ADDRESS0, REGISTER_SEQ_ADDRESS1}

NoEntry == [code |-> 0, hi |-> 0, lo |-> 0]

CardInit == [regs |-> [r \in PlainRegs |-> 0],
             ram  |-> [n \in 0..1 |-> [a \in RamAddrs |-> NoEntry]]]

\* the sequencer a data-window register belongs to
WindowSeq(reg) ==
    IF reg \in {REGISTER_SEQ_CODE0, REGISTER_SEQ_TIME0, REGISTER_SEQ_TIME0 + 2}
    THEN 0 ELSE 1

WindowField(reg) ==
    IF reg \in {REGISTER_SEQ_CODE0, REGISTER_SEQ_CODE1} THEN "code"
    ELSE IF reg \in {REGISTER_SEQ_TIME0, REGISTER_SEQ_TIME1} THEN "hi"
    ELSE "lo"

Latch(c, n) ==
    c.regs[IF n = 0 THEN REGISTER_SEQ_ADDRESS0 ELSE REGISTER_SEQ_ADDRESS1]

CardRead(c, reg) ==
    IF reg \in PlainRegs THEN c.regs[reg]
    ELSE IF Latch(c, WindowSeq(reg)) \in RamAddrs
         THEN c.ram[WindowSeq(reg)][Latch(c, WindowSeq(reg))][WindowField(reg)]
         ELSE 0

CardWrite(c, reg, v) ==
    IF reg \in PlainRegs THEN [c EXCEPT !.regs[reg] = v]
    ELSE IF Latch(c, WindowSeq(reg)) \in RamAddrs
         THEN [c EXCEPT !.ram[WindowSeq(reg)][Latch(c, WindowSeq(reg))][WindowField(reg)] = v]
         ELSE c

(***************************************************************************)
(* Wire messages.  The host is little-endian: htons/ntohs swap the two     *)
(* octets of the data field; the card reads and writes the field in        *)
(* network byte order.  The address field holds REGISTER_BASE_ADDRESS +    *)
(* reg; the model keeps the register offset.                               *)
(***************************************************************************)
Swap16(x) == (x % 256) * 256 + (x \div 256)
htons(x) == Swap16(x)

\* the data field taken in wire order
ntohs_None(x) == x

ntohs(x) == Swap16(x)

NoMessage == [access |-> 0, status |-> 0, data |-> 0, address |-> 0, reference |-> 0]

\* the request readreg prepares
ReadRequest(reg) ==
    [access |-> ACCESS_READ, status |-> 0, data |-> 0, address |-> reg,
     reference |-> 0]

\* the request writereg prepares
WriteRequest(reg, data) ==
    [access |-> ACCESS_WRITE, status |-> 0, data |-> htons(data), address |-> reg,
     reference |-> 0]

\* a write-through card: a WRITE is stored, the reply echoes the request and
\* carries the register content on a READ
CardApply(c, m) ==
    IF m.access = ACCESS_WRITE THEN CardWrite(c, m.address, Swap16(m.data)) ELSE c

CardReply(c, m) ==
    [m EXCEPT !.data = IF m.access = ACCESS_READ
                       THEN Swap16(CardRead(c, m.address)) ELSE m.data]

\* a value a register may hold that no caller of the model writes
OTHER_CONTENT == 453

\* What a card may do with request m, as the set of [card, reply] outcomes:
\*   "stores"  the write-through card;
\*   "sticky"  a card that acknowledges a WRITE and leaves the register as it is;
\*   "any"     any card at all: a READ is answered with any content, of which
\*             the model takes the value the caller wrote last (expect) and
\*             another one.
Answers(c, m, expect, kind) ==
    CASE kind = "stores" -> {[card |-> CardApply(c, m), reply |-> CardReply(CardApply(c, m), m)]}
      [] kind = "sticky" -> {[card |-> c, reply |-> CardReply(c, m)]}
      [] OTHER ->
           IF m.access = ACCESS_READ
           THEN {[card |-> c, reply |-> [m EXCEPT !.data = Swap16(x)]] :
                    x \in {expect, OTHER_CONTENT}}
           ELSE {[card |-> c, reply |-> m]}

(***************************************************************************)
(* Threads.  A thread runs one evg_* operation at a time; call is the      *)
(* register function (readreg / writereg, possibly inside writecheck) it   *)
(* is in, with that function's locals.                                     *)
(***************************************************************************)
NoCall == [fn |-> "none", wc |-> FALSE, reg |-> 0, wdata |-> 0,
           message |-> NoMessage, retries |-> 0, phase |-> "none"]

\* a uint32_t cycle count, as its two 16-bit halves
NoCycles == [hi |-> 0, lo |-> 0]

IdleThread(d) ==
    [op |-> "none", n |-> 0, address |-> 0, v |-> 0, dev |-> d, pc |-> "idle",
     status |-> 0, data |-> 0, cycles |-> NoCycles, ret |-> 0, out |-> 0,
     tsout |-> NoCycles, sent |-> 0, call |-> NoCall]

\* readreg(dev, reg, &data): the prepared request, retries = 0
readreg(reg) ==
    [fn |-> "readreg", wc |-> FALSE, reg |-> reg, wdata |-> 0,
     message |-> ReadRequest(reg), retries |-> 0, phase |-> "write"]

\* writereg(dev, reg, data): the prepared request, retries = 0
writereg(reg, data) ==
    [fn |-> "writereg", wc |-> FALSE, reg |-> reg, wdata |-> data,
     message |-> WriteRequest(reg, data), retries |-> 0, phase |-> "write"]

\* a writecheck that does not read back
writecheck_Unverified(reg, data) == writereg(reg, data)

\* writecheck(dev, reg, data) starts with writereg(dev, reg, data)
writecheck(reg, data) == [writereg(reg, data) EXCEPT !.wc = TRUE]

\* a writecheck that does not compare
Mismatch_Ignored(readback, data) == FALSE

\* writecheck's verdict on the read-back: if (readback != data) return -1;
Mismatch(readback, data) == readback # data

\* no exchange was made since the mutex was last released
NoExchange == [thread |-> NoThread, tries |-> 0, answered |-> FALSE,
               ok |-> FALSE, late |-> FALSE, rstatus |-> 0, len |-> 0]

InExchange(t) == th[t].call.fn # "none"

\* the thread is in operation op, between two register calls
AtStep(t, op) ==
    /\ th[t].op = op
    /\ th[t].pc \notin {"idle", "lock", "done"}
    /\ ~InExchange(t)

(***************************************************************************)
(* pthread_mutex_lock / pthread_mutex_unlock on device->mutex.             *)
(***************************************************************************)
MutexFree(d) == mutex[d] = NoThread

Unlocked(d) == [mutex EXCEPT ![d] = NoThread]

\* a lock that does not wait for the holder (a trylock whose result is dropped)
pthread_mutex_lock_NoWait(t) ==
    /\ th[t].pc = "lock"
    /\ mutex' = [mutex EXCEPT ![th[t].dev] = t]
    /\ th' = [th EXCEPT ![t].pc = "entry"]
    /\ UNCHANGED <<record, devices, deviceCount, shell, card, flight, hist, last>>

\* one mutex for the whole driver: the lock waits for every device
pthread_mutex_lock_Global(t) ==
    /\ th[t].pc = "lock"
    /\ \A d \in Devs : MutexFree(d)
    /\ mutex' = [mutex EXCEPT ![th[t].dev] = t]
    /\ th' = [th EXCEPT ![t].pc = "entry"]
    /\ UNCHANGED <<record, devices, deviceCount, shell, card, flight, hist, last>>

\* every operation starts with pthread_mutex_lock(&device->mutex)
pthread_mutex_lock(t) ==
    /\ th[t].pc = "lock"
    /\ MutexFree(th[t].dev)
    /\ mutex' = [mutex EXCEPT ![th[t].dev] = t]
    /\ th' = [th EXCEPT ![t].pc = "entry"]
    /\ UNCHANGED <<record, devices, deviceCount, shell, card, flight, hist, last>>

\* pthread_mutex_unlock(&device->mutex); return r;  (the locals die)
Exit(t, r, o) ==
    /\ th' = [th EXCEPT ![t].pc = "done", ![t].ret = r, ![t].out = o,
                        ![t].status = 0, ![t].data = 0, ![t].cycles = NoCycles]
    /\ mutex' = Unlocked(th[t].dev)
    /\ hist' = [hist EXCEPT ![th[t].dev] = <<>>]
    /\ last' = [last EXCEPT ![th[t].dev] = NoExchange]
    /\ UNCHANGED <<record, devices, deviceCount, shell, card, flight>>

\* an error exit that returns with the mutex held
FailExit_NoUnlock(t) ==
    /\ th' = [th EXCEPT ![t].pc = "done", ![t].ret = -1, ![t].out = 0,
                        ![t].status = 0, ![t].data = 0, ![t].cycles = NoCycles]
    /\ UNCHANGED <<record, devices, deviceCount, shell, mutex, card, flight, hist, last>>

\* the error exits: unlock, return -1
FailExit(t) == Exit(t, -1, 0)

\* the operation goes on to the register call c, its locals now l
Invoke(t, l, pc2, c) ==
    /\ th' = [th EXCEPT ![t] = [l EXCEPT !.pc = pc2, !.call = c]]
    /\ UNCHANGED <<record, devices, deviceCount, shell, mutex, card, flight, hist, last>>

(***************************************************************************)
(* The exchange loop of readreg and writereg.                              *)
(***************************************************************************)
\* a datagram of the given length carrying the first octets of msg; stale
\* tells that it answers a request of an exchange that is over
NoDatagram == [msg |-> NoMessage, len |-> 0, stale |-> FALSE]

\* what read(device->socket, &message, sizeof(message)) returns for the
\* datagram g: the octets beyond the buffer are dropped
ReadSize(g) == IF g.len > MESSAGE_SIZE THEN MESSAGE_SIZE ELSE g.len

\* message after that read: the octets read replace the first octets of the
\* buffer (access at 0, status at 1, data at 2, address at 4, reference at
\* 8), the rest of the buffer is as it was
ReadInto(message, g) ==
    [access    |-> IF ReadSize(g) >= 1 THEN g.msg.access ELSE message.access,
     status    |-> IF ReadSize(g) >= 2 THEN g.msg.status ELSE message.status,
     data      |-> IF ReadSize(g) >= 4 THEN g.msg.data ELSE message.data,
     address   |-> IF ReadSize(g) >= 8 THEN g.msg.address ELSE message.address,
     reference |-> IF ReadSize(g) >= 12 THEN g.msg.reference ELSE message.reference]

\* a read that takes a reply only when its status field is zero
Accepted_StatusChecked(g) == ReadSize(g) = MESSAGE_SIZE /\ g.msg.status = 0

\* if (status == sizeof(message)) break;
Accepted(g) == ReadSize(g) = MESSAGE_SIZE

MarkStale(q) == [i \in 1..Len(q) |-> [q[i] EXCEPT !.stale = TRUE]]

Push(h, e) == SubSeq(<<e>> \o h, 1, IF Len(h) + 1 > HistLen THEN HistLen ELSE Len(h) + 1)

\* what the thread's record becomes when its exchange ends with status st,
\* rd being ntohs(message.data) of the reply
AfterExchange(l, st, rd) ==
    IF l.call.wc /\ l.call.fn = "writereg" /\ st = 0
    THEN \* writecheck: the write went through, read the register back
         [l EXCEPT !.call = [readreg(l.call.reg) EXCEPT !.wc = TRUE,
                                                        !.wdata = l.call.wdata]]
    ELSE IF l.call.wc /\ l.call.fn = "readreg"
    THEN \* writecheck: compare the read-back with the data written
         [l EXCEPT !.call = NoCall,
                   !.status = IF st < 0 \/ Mismatch(rd, l.call.wdata) THEN -1 ELSE 0]
    ELSE IF l.call.fn = "readreg"
    THEN \* readreg called by the operation: *data is set on success only
         [l EXCEPT !.call = NoCall, !.status = st,
                   !.data = IF st = 0 THEN rd ELSE @]
    ELSE [l EXCEPT !.call = NoCall, !.status = st]

\* the loop's exhaustion going unnoticed
ExchangeStatus_Ok(retries) == 0

\* after the loop: if (retries >= NUMBER_OF_RETRIES) return -1;
ExchangeStatus(retries) == IF retries >= NUMBER_OF_RETRIES THEN -1 ELSE 0

\* The for loop of thread t's exchange is left with the given value of
\* retries: by a break after reading the datagram g (answered), or by its
\* condition (g is NoDatagram).  q is what is left unread; the replies still
\* unread are, from now on, replies to an exchange that is over.
EndExchange(t, retries, answered, g, q) ==
    LET c == th[t].call
        d == th[t].dev
        rd == ntohs(ReadInto(c.message, g).data)
        st == ExchangeStatus(retries)
        e == [thread |-> t,
              access |-> IF c.fn = "readreg" THEN ACCESS_READ ELSE ACCESS_WRITE,
              reg |-> c.reg,
              data |-> IF c.fn = "readreg" THEN rd ELSE c.wdata,
              ok |-> st = 0,
              wc |-> c.wc,
              want |-> c.wdata]
    IN  /\ th' = [th EXCEPT ![t] = AfterExchange(th[t], st, rd)]
        /\ hist' = [hist EXCEPT ![d] = Push(@, e)]
        /\ last' = [last EXCEPT ![d] =
                        [thread |-> t,
                         tries |-> IF answered THEN retries + 1 ELSE retries,
                         answered |-> answered, ok |-> st = 0, late |-> g.stale,
                         rstatus |-> g.msg.status, len |-> g.len]]
        /\ flight' = [flight EXCEPT ![d] = MarkStale(q)]
        /\ UNCHANGED <<record, devices, deviceCount, shell, mutex>>

\* the loop with the condition retries <= NUMBER_OF_RETRIES
NextAttempt_OneMore(t, q, m) ==
    IF th[t].call.retries + 1 <= NUMBER_OF_RETRIES
    THEN /\ th' = [th EXCEPT ![t].call.retries = @ + 1, ![t].call.phase = "write",
                             ![t].call.message = m]
         /\ flight' = [flight EXCEPT ![th[t].dev] = q]
         /\ UNCHANGED <<record, devices, deviceCount, shell, mutex, hist, last>>
    ELSE EndExchange(t, th[t].call.retries + 1, FALSE, NoDatagram, q)

\* the end of one iteration of the for loop without a break: retries++, then
\* the loop condition retries < NUMBER_OF_RETRIES
NextAttempt(t, q, m) ==
    IF th[t].call.retries + 1 < NUMBER_OF_RETRIES
    THEN /\ th' = [th EXCEPT ![t].call.retries = @ + 1, ![t].call.phase = "write",
                             ![t].call.message = m]
         /\ flight' = [flight EXCEPT ![th[t].dev] = q]
         /\ UNCHANGED <<record, devices, deviceCount, shell, mutex, hist, last>>
    ELSE EndExchange(t, th[t].call.retries + 1, FALSE, NoDatagram, q)

\* write(device->socket, &message, sizeof(message)) returns sizeof(message):
\* the request is on the wire.  It is lost on the way, or it reaches a card of
\* the given kind; the reply is then lost or on its way back.
SocketWrite(t, Fates, kind) ==
    /\ InExchange(t)
    /\ th[t].call.phase = "write"
    /\ \E fate \in Fates :
          LET d == th[t].dev
              m == th[t].call.message
          IN  \E a \in Answers(card[d], m, th[t].call.wdata, kind) :
                 /\ fate = "reply" => Len(flight[d]) < MaxInFlight
                 /\ card' = [card EXCEPT ![d] = IF fate = "lost" THEN @ ELSE a.card]
                 /\ flight' = [flight EXCEPT ![d] =
                       IF fate = "reply"
                       THEN Append(@, [msg |-> a.reply, len |-> MESSAGE_SIZE,
                                       stale |-> FALSE])
                       ELSE @]
    /\ th' = [th EXCEPT ![t].call.phase = "poll", ![t].sent = @ + 1]
    /\ UNCHANGED <<record, devices, deviceCount, shell, mutex, hist, last>>

\* write() returns sizeof(message) and the request reaches a card of the
\* given kind, whose reply comes back with one of the given values in its
\* status field and as a datagram of one of the given sizes, but not as a
\* message of status 0
SocketWriteAltered(t, kind, Statuses, Sizes) ==
    /\ InExchange(t)
    /\ th[t].call.phase = "write"
    /\ LET d == th[t].dev
           m == th[t].call.message
       IN  \E a \in Answers(card[d], m, th[t].call.wdata, kind),
              status \in Statuses, len \in Sizes :
                 /\ status # 0 \/ len # MESSAGE_SIZE
                 /\ Len(flight[d]) < MaxInFlight
                 /\ card' = [card EXCEPT ![d] = a.card]
                 /\ flight' = [flight EXCEPT ![d] =
                       Append(@, [msg |-> [a.reply EXCEPT !.status = status],
                                  len |-> len, stale |-> FALSE])]
    /\ th' = [th EXCEPT ![t].call.phase = "poll", ![t].sent = @ + 1]
    /\ UNCHANGED <<record, devices, deviceCount, shell, mutex, hist, last>>

\* the reply comes back with a status field that is not zero, or shorter or
\* longer than a message, or both
SocketWriteFaulty(t, kind) ==
    SocketWriteAltered(t, kind, {0, 1}, {8, MESSAGE_SIZE, 16})

\* write() fails or is partial: the attempt is over, nothing was sent
WriteFails(t) ==
    /\ InExchange(t)
    /\ th[t].call.phase = "write"
    /\ NextAttempt(t, flight[th[t].dev], th[t].call.message)
    /\ UNCHANGED card

\* poll(events, 1, 1000) returns 0: no reply is on its way (the request or
\* its reply was lost)
PollTimeout(t) ==
    /\ InExchange(t)
    /\ th[t].call.phase = "poll"
    /\ flight[th[t].dev] = <<>>
    /\ NextAttempt(t, flight[th[t].dev], th[t].call.message)
    /\ UNCHANGED card

\* poll(events, 1, 1000) returns 0 although a reply is on its way: it will
\* arrive after the timeout
PollTimeoutLate(t) ==
    /\ InExchange(t)
    /\ th[t].call.phase = "poll"
    /\ flight[th[t].dev] # <<>>
    /\ NextAttempt(t, flight[th[t].dev], th[t].call.message)
    /\ UNCHANGED card

\* poll() > 0, then read(device->socket, &message, sizeof(message)): the
\* oldest datagram waiting is read into message; a read of sizeof(message)
\* octets ends the loop
SocketRead(t) ==
    /\ InExchange(t)
    /\ th[t].call.phase = "poll"
    /\ flight[th[t].dev] # <<>>
    /\ LET g == Head(flight[th[t].dev])
           q == Tail(flight[th[t].dev])
       IN  IF Accepted(g)
           THEN EndExchange(t, th[t].call.retries, TRUE, g, q)
           ELSE NextAttempt(t, q, ReadInto(th[t].call.message, g))
    /\ UNCHANGED card

(***************************************************************************)
(* The operations (src/evg.c).  Each action is one operation's code        *)
(* between two register calls: pc names the call it returns from.          *)
(***************************************************************************)
Self(t) == th[t]

\* evg_enable(dev, enable): v is enable
evg_enable(t) ==
    /\ AtStep(t, "enable")
    /\ IF th[t].pc = "entry"
       THEN Invoke(t, Self(t), "write",
                   writereg(REGISTER_CONTROL,
                            IF th[t].v # 0 THEN CONTROL_ENABLE ELSE CONTROL_DISABLE))
       ELSE IF th[t].status < 0 THEN FailExit(t) ELSE Exit(t, 0, 0)

\* evg_isEnabled(dev)
evg_isEnabled(t) ==
    /\ AtStep(t, "isEnabled")
    /\ IF th[t].pc = "entry"
       THEN Invoke(t, Self(t), "read", readreg(REGISTER_CONTROL))
       ELSE IF th[t].status < 0 THEN FailExit(t)
       ELSE Exit(t, IF BitAnd(th[t].data, CONTROL_DISABLE) = 0 THEN 1 ELSE 0, 0)

\* evg_setRfPrescaler(dev, prescaler): v is prescaler
evg_setRfPrescaler(t) ==
    /\ AtStep(t, "setRfPrescaler")
    /\ CASE th[t].pc = "entry" ->
              IF th[t].v >= 32 THEN FailExit(t)
              ELSE Invoke(t, Self(t), "read", readreg(REGISTER_RF_CONTROL))
         [] th[t].pc = "read" ->
              IF th[t].status < 0 THEN FailExit(t)
              ELSE LET data == BitClear(th[t].data, RF_CONTROL_DIVIDER_MASK)
                   IN  Invoke(t, [Self(t) EXCEPT !.data = data], "check",
                              writecheck(REGISTER_RF_CONTROL, OrU16(data, th[t].v - 1)))
         [] OTHER ->
              IF th[t].status < 0 THEN FailExit(t) ELSE Exit(t, 0, 0)

\* evg_getRfPrescaler storing the register as read
evg_getRfPrescaler_NoMask(t) ==
    /\ AtStep(t, "getRfPrescaler")
    /\ IF th[t].pc = "entry"
       THEN Invoke(t, Self(t), "read", readreg(REGISTER_RF_CONTROL))
       ELSE IF th[t].status < 0 THEN FailExit(t)
       ELSE Exit(t, 0, th[t].data % 256)

\* evg_getRfPrescaler(dev, &prescaler): *prescaler is a uint8_t
evg_getRfPrescaler(t) ==
    /\ AtStep(t, "getRfPrescaler")
    /\ IF th[t].pc = "entry"
       THEN Invoke(t, Self(t), "read", readreg(REGISTER_RF_CONTROL))
       ELSE IF th[t].status < 0 THEN FailExit(t)
       ELSE Exit(t, 0, BitAnd(th[t].data, RF_CONTROL_DIVIDER_MASK) % 256)

\* the register the two branches of "if (sequencer)" of the sequencer
\* prescaler operations use
SeqClockSel(n) ==
    IF n # 0 THEN REGISTER_SEQ_CLOCK_SEL2 ELSE REGISTER_SEQ_CLOCK_SEL1

\* evg_setSequencerPrescaler(dev, sequencer, prescaler): n is sequencer, v is
\* prescaler.  The operation checks none of its arguments.
evg_setSequencerPrescaler(t) ==
    /\ AtStep(t, "setSequencerPrescaler")
    /\ IF th[t].pc = "entry"
       THEN Invoke(t, Self(t), "check", writecheck(SeqClockSel(th[t].n), th[t].v))
       ELSE IF th[t].status < 0 THEN FailExit(t) ELSE Exit(t, 0, 0)

\* evg_getSequencerPrescaler(dev, sequencer, &prescaler): readreg stores into
\* *prescaler
evg_getSequencerPrescaler(t) ==
    /\ AtStep(t, "getSequencerPrescaler")
    /\ IF th[t].pc = "entry"
       THEN Invoke(t, Self(t), "read", readreg(SeqClockSel(th[t].n)))
       ELSE IF th[t].status < 0 THEN FailExit(t) ELSE Exit(t, 0, th[t].data)

\* evg_enableSequencer(dev, sequencer, enable): n is sequencer, v is enable.
\* The block after readreg has no "if (status < 0)": it is always entered, so
\* the operation unlocks and returns -1 whatever readreg returned, and the
\* code after it (the bit update and the writereg) is never run.
evg_enableSequencer(t) ==
    /\ AtStep(t, "enableSequencer")
    /\ IF th[t].pc = "entry"
       THEN IF th[t].n >= NUMBER_OF_SEQUENCERS THEN FailExit(t)
            ELSE Invoke(t, Self(t), "read", readreg(REGISTER_EVENT_ENABLE))
       ELSE FailExit(t)

\* evg_isSequencerEnabled(dev, sequencer): returns the masked register
evg_isSequencerEnabled(t) ==
    /\ AtStep(t, "isSequencerEnabled")
    /\ IF th[t].pc = "entry"
       THEN IF th[t].n >= NUMBER_OF_SEQUENCERS THEN FailExit(t)
            ELSE Invoke(t, Self(t), "read", readreg(REGISTER_EVENT_ENABLE))
       ELSE IF th[t].status < 0 THEN FailExit(t)
       ELSE Exit(t, BitAnd(th[t].data, IF th[t].n # 0 THEN EVENT_ENABLE_SEQUENCER1
                                                     ELSE EVENT_ENABLE_SEQUENCER0), 0)

\* evg_setSequencerTriggerSource(dev, sequencer, source): v is source.  The
\* block after the first readreg has no "if (status < 0)": the operation
\* unlocks and returns -1 whatever readreg returned; the second read, the
\* switch and the two writereg calls are never run.
evg_setSequencerTriggerSource(t) ==
    /\ AtStep(t, "setSequencerTriggerSource")
    /\ IF th[t].pc = "entry"
       THEN IF th[t].n >= NUMBER_OF_SEQUENCERS THEN FailExit(t)
            ELSE Invoke(t, Self(t), "read", readreg(REGISTER_EVENT_ENABLE))
       ELSE FailExit(t)

\* evg_getSequencerTriggerSource(dev, sequencer, &source): the first readreg
\* is checked; the second one reads REGISTER_EVENT_ENABLE again and the block
\* after it has no "if (status < 0)": the operation unlocks and returns -1,
\* the switch that sets *source is never run.
evg_getSequencerTriggerSource(t) ==
    /\ AtStep(t, "getSequencerTriggerSource")
    /\ CASE th[t].pc = "entry" ->
              IF th[t].n >= NUMBER_OF_SEQUENCERS THEN FailExit(t)
              ELSE Invoke(t, Self(t), "enable", readreg(REGISTER_EVENT_ENABLE))
         [] th[t].pc = "enable" ->
              IF th[t].status < 0 THEN FailExit(t)
              ELSE Invoke(t, Self(t), "ac", readreg(REGISTER_EVENT_ENABLE))
         [] OTHER -> FailExit(t)

\* evg_triggerSequencer(dev, sequencer): the block after readreg has no
\* "if (status < 0)" either; the writereg of CONTROL is never run.
evg_triggerSequencer(t) ==
    /\ AtStep(t, "triggerSequencer")
    /\ IF th[t].pc = "entry"
       THEN IF th[t].n >= NUMBER_OF_SEQUENCERS THEN FailExit(t)
            ELSE Invoke(t, Self(t), "read", readreg(REGISTER_CONTROL))
       ELSE FailExit(t)

\* evg_setRfClockSource(dev, source): v is source
evg_setRfClockSource(t) ==
    /\ AtStep(t, "setRfClockSource")
    /\ CASE th[t].pc = "entry" ->
              Invoke(t, Self(t), "read", readreg(REGISTER_RF_CONTROL))
         [] th[t].pc = "read" ->
              IF th[t].status < 0 THEN FailExit(t)
              ELSE IF th[t].v = RF_SOURCE_INTERNAL
              THEN LET data == BitClear(th[t].data, RF_CONTROL_EXTERNAL)
                   IN  Invoke(t, [Self(t) EXCEPT !.data = data], "check",
                              writecheck(REGISTER_RF_CONTROL, data))
              ELSE Invoke(t, Self(t), "check",
                          writecheck(REGISTER_RF_CONTROL,
                                     BitOr(th[t].data, RF_CONTROL_EXTERNAL)))
         [] OTHER ->
              IF th[t].status < 0 THEN FailExit(t) ELSE Exit(t, 0, 0)

\* evg_getRfClockSource(dev, &source): *source = (rfsource_t)(data & RF_CONTROL_EXTERNAL)
evg_getRfClockSource(t) ==
    /\ AtStep(t, "getRfClockSource")
    /\ IF th[t].pc = "entry"
       THEN Invoke(t, Self(t), "read", readreg(REGISTER_RF_CONTROL))
       ELSE IF th[t].status < 0 THEN FailExit(t)
       ELSE Exit(t, 0, BitAnd(th[t].data, RF_CONTROL_EXTERNAL))

\* evg_setAcPrescaler(dev, prescaler): v is prescaler, a uint8_t
evg_setAcPrescaler(t) ==
    /\ AtStep(t, "setAcPrescaler")
    /\ CASE th[t].pc = "entry" ->
              Invoke(t, Self(t), "read", readreg(REGISTER_AC_ENABLE))
         [] th[t].pc = "read" ->
              IF th[t].status < 0 THEN FailExit(t)
              ELSE LET data == BitClear(th[t].data, AC_ENABLE_DIVIDER_MASK)
                   IN  Invoke(t, [Self(t) EXCEPT !.data = data], "check",
                              writecheck(REGISTER_AC_ENABLE, BitOr(data, th[t].v)))
         [] OTHER ->
              IF th[t].status < 0 THEN FailExit(t) ELSE Exit(t, 0, 0)

\* evg_setAcSyncSource(dev, source): v is source.  The AC_SOURCE_MXC7 branch
\* write-checks REGISTER_RF_CONTROL.
evg_setAcSyncSource(t) ==
    /\ AtStep(t, "setAcSyncSource")
    /\ CASE th[t].pc = "entry" ->
              Invoke(t, Self(t), "read", readreg(REGISTER_AC_ENABLE))
         [] th[t].pc = "read" ->
              IF th[t].status < 0 THEN FailExit(t)
              ELSE IF th[t].v = AC_SOURCE_MXC7
              THEN Invoke(t, Self(t), "check",
                          writecheck(REGISTER_RF_CONTROL,
                                     BitOr(th[t].data, AC_ENABLE_SYNC)))
              ELSE LET data == BitClear(th[t].data, AC_ENABLE_SYNC)
                   IN  Invoke(t, [Self(t) EXCEPT !.data = data], "check",
                              writecheck(REGISTER_AC_ENABLE, data))
         [] OTHER ->
              IF th[t].status < 0 THEN FailExit(t) ELSE Exit(t, 0, 0)

\* evg_getAcSyncSource(dev, &source): *source = (acsource_t)(data & AC_SOURCE_MXC7)
evg_getAcSyncSource(t) ==
    /\ AtStep(t, "getAcSyncSource")
    /\ IF th[t].pc = "entry"
       THEN Invoke(t, Self(t), "read", readreg(REGISTER_AC_ENABLE))
       ELSE IF th[t].status < 0 THEN FailExit(t)
       ELSE Exit(t, 0, BitAnd(th[t].data, AC_SOURCE_MXC7))

\* evg_setCounterPrescaler(dev, counter, prescaler): n is counter, v is
\* prescaler.  The operation is declared in evg.h and defined in no file of
\* src/; this is the operation as specified: the high word of the counter's
\* prescaler is selected and written, then the low word.
evg_setCounterPrescaler(t) ==
    /\ AtStep(t, "setCounterPrescaler")
    /\ CASE th[t].pc = "entry" ->
              IF th[t].n >= NUMBER_OF_COUNTERS THEN FailExit(t)
              ELSE Invoke(t, Self(t), "selecthigh",
                          writecheck(REGISTER_MXC_CONTROL,
                                     BitOr(MXC_CONTROL_HIGH_WORD, th[t].n)))
         [] th[t].pc = "selecthigh" ->
              IF th[t].status < 0 THEN FailExit(t)
              ELSE Invoke(t, Self(t), "high",
                          writecheck(REGISTER_MXC_PRESCALER, th[t].v \div 65536))
         [] th[t].pc = "high" ->
              IF th[t].status < 0 THEN FailExit(t)
              ELSE Invoke(t, Self(t), "selectlow",
                          writecheck(REGISTER_MXC_CONTROL, th[t].n))
         [] th[t].pc = "selectlow" ->
              IF th[t].status < 0 THEN FailExit(t)
              ELSE Invoke(t, Self(t), "low",
                          writecheck(REGISTER_MXC_PRESCALER, th[t].v % 65536))
         [] OTHER ->
              IF th[t].status < 0 THEN FailExit(t) ELSE Exit(t, 0, 0)

\* the address latch of sequencer 0 used for both sequencers
SeqAddress_Always0(n) == REGISTER_SEQ_ADDRESS0

\* the registers the two branches of "if (sequencer)" use
SeqAddress(n) == IF n # 0 THEN REGISTER_SEQ_ADDRESS1 ELSE REGISTER_SEQ_ADDRESS0
SeqCode(n) == IF n # 0 THEN REGISTER_SEQ_CODE1 ELSE REGISTER_SEQ_CODE0
SeqTime(n) == IF n # 0 THEN REGISTER_SEQ_TIME1 ELSE REGISTER_SEQ_TIME0

\* the checks shared by the latched operations
BadSequencerOrAddress(t) ==
    \/ th[t].n >= NUMBER_OF_SEQUENCERS
    \/ th[t].address >= NUMBER_OF_ADDRESSES

\* evg_setEvent going on to the event code whatever the address latch returned
evg_setEvent_NoCheck(t) ==
    /\ AtStep(t, "setEvent")
    /\ CASE th[t].pc = "entry" ->
              IF BadSequencerOrAddress(t) THEN FailExit(t)
              ELSE Invoke(t, Self(t), "address",
                          writecheck(SeqAddress(th[t].n), th[t].address))
         [] th[t].pc = "address" ->
              Invoke(t, Self(t), "code", writecheck(SeqCode(th[t].n), th[t].v))
         [] OTHER ->
              IF th[t].status < 0 THEN FailExit(t) ELSE Exit(t, 0, 0)

\* evg_setEvent(dev, sequencer, address, event): v is event
evg_setEvent(t) ==
    /\ AtStep(t, "setEvent")
    /\ CASE th[t].pc = "entry" ->
              IF BadSequencerOrAddress(t) THEN FailExit(t)
              ELSE Invoke(t, Self(t), "address",
                          writecheck(SeqAddress(th[t].n), th[t].address))
         [] th[t].pc = "address" ->
              IF th[t].status < 0 THEN FailExit(t)
              ELSE Invoke(t, Self(t), "code", writecheck(SeqCode(th[t].n), th[t].v))
         [] OTHER ->
              IF th[t].status < 0 THEN FailExit(t) ELSE Exit(t, 0, 0)

\* evg_getEvent(dev, sequencer, address, &event)
evg_getEvent(t) ==
    /\ AtStep(t, "getEvent")
    /\ CASE th[t].pc = "entry" ->
              IF BadSequencerOrAddress(t) THEN FailExit(t)
              ELSE Invoke(t, Self(t), "address",
                          writecheck(SeqAddress(th[t].n), th[t].address))
         [] th[t].pc = "address" ->
              IF th[t].status < 0 THEN FailExit(t)
              ELSE Invoke(t, Self(t), "code", readreg(SeqCode(th[t].n)))
         [] OTHER ->
              IF th[t].status < 0 THEN FailExit(t)
              ELSE Exit(t, 0, th[t].data % 256)

(***************************************************************************)
(* The device table.  A C string is a sequence of characters.  configure   *)
(* is called from the IOC shell before iocInit, evg_open by the record     *)
(* initialisation.                                                         *)
(***************************************************************************)
strlen(s) == Len(s)

IsDigit(c) == c \in {"0", "1", "2", "3", "4", "5", "6", "7", "8", "9"}

DigitVal(c) ==
    CHOOSE v \in 0..9 : <<"0", "1", "2", "3", "4", "5", "6", "7", "8", "9">>[v + 1] = c

RECURSIVE SkipSpace(_, _)
SkipSpace(s, i) == IF i <= Len(s) /\ s[i] = " " THEN SkipSpace(s, i + 1) ELSE i

RECURSIVE Digits(_, _, _)
Digits(s, i, acc) ==
    IF i <= Len(s) /\ IsDigit(s[i])
    THEN Digits(s, i + 1, acc * 10 + DigitVal(s[i]))
    ELSE acc

\* atoi(s): leading blanks, an optional sign, then the digits up to the
\* first character that is not one
atoi(s) ==
    LET i == SkipSpace(s, 1)
        signed == i <= Len(s) /\ s[i] \in {"-", "+"}
        magnitude == Digits(s, IF signed THEN i + 1 ELSE i, 0)
    IN  IF signed /\ s[i] = "-" THEN 0 - magnitude ELSE magnitude

RECURSIVE SplitDots(_)
SplitDots(s) ==
    IF \E i \in 1..Len(s) : s[i] = "."
    THEN LET i == CHOOSE k \in 1..Len(s) :
                      s[k] = "." /\ \A j \in 1..(k - 1) : s[j] # "."
         IN  <<SubSeq(s, 1, i - 1)>> \o SplitDots(SubSeq(s, i + 1, Len(s)))
    ELSE <<s>>

\* inet_aton(ip, &addr) # 0, for addresses written as four decimal numbers;
\* the shorter and the octal and hexadecimal forms are not drawn
inet_aton(ip) ==
    LET part == SplitDots(ip)
    IN  /\ Len(part) = 4
        /\ \A k \in 1..4 :
               /\ Len(part[k]) \in 1..3
               /\ \A i \in 1..Len(part[k]) : IsDigit(part[k][i])
               /\ Digits(part[k], 1, 0) <= 255

\* inet_addr(ip): the four octets, in network order
inet_addr(ip) == [k \in 1..4 |-> Digits(SplitDots(ip)[k], 1, 0)]

\* the conversion of an int to uint32_t, as its two 16-bit halves
ToUint32(x) == [hi |-> (x \div 65536) % 65536, lo |-> x % 65536]

\* a slot of the static table before configure wrote to it
NoDevice ==
    [name |-> <<>>, ip |-> <<0, 0, 0, 0>>, port |-> 0,
     frequency |-> ToUint32(0), socket |-> 0]

\* the record configure writes, port and frequency being the results of atoi
ConfigureRecord(name, ip, port, frequency) ==
    [name |-> name, ip |-> inet_addr(ip), port |-> htons(port % 65536),
     frequency |-> ToUint32(frequency), socket |-> 0]

ConfigureArgs(name, ip, port, frequency) ==
    [name |-> name, ip |-> ip, port |-> port, frequency |-> frequency]

NoArgs == ConfigureArgs(<<>>, <<>>, <<>>, <<>>)

NULL == 0

\* the start-up thread before its first call
NoShell ==
    [fn |-> "none", args |-> NoArgs, ret |-> 0, handle |-> NULL, lines |-> 0,
     device |-> 0, pc |-> "none"]

\* a table that does not fill up
TooManyDevices_OffByOne == deviceCount > NUMBER_OF_DEVICES

\* if (deviceCount >= NUMBER_OF_DEVICES) return -1;
TooManyDevices == deviceCount >= NUMBER_OF_DEVICES

\* the checks of configure on its arguments
BadArguments(a) ==
    \/ strlen(a.name) = 0 \/ strlen(a.name) >= NAME_LENGTH
    \/ ~inet_aton(a.ip)
    \/ strlen(a.port) = 0 \/ atoi(a.port) = 0 \/ atoi(a.port) > USHRT_MAX
    \/ strlen(a.frequency) = 0 \/ atoi(a.frequency) = 0

\* configure(name, ip, port, frequency), one line of the start-up script
configure(a) ==
    /\ shell.fn \in {"none", "configure", "open"}
    /\ shell.lines < MaxLines
    /\ IF TooManyDevices \/ BadArguments(a)
       THEN /\ shell' = [shell EXCEPT !.fn = "configure", !.args = a, !.ret = -1,
                                      !.handle = NULL, !.lines = @ + 1]
            /\ UNCHANGED <<devices, deviceCount>>
       ELSE /\ devices' = [devices EXCEPT ![deviceCount + 1] =
                              ConfigureRecord(a.name, a.ip, atoi(a.port),
                                              atoi(a.frequency))]
            /\ deviceCount' = deviceCount + 1
            /\ shell' = [shell EXCEPT !.fn = "configure", !.args = a, !.ret = 0,
                                      !.handle = NULL, !.lines = @ + 1]
    /\ UNCHANGED <<record, th, mutex, card, flight, hist, last>>

\* a search that returns the first device whatever its name
Search_First(name) == IF deviceCount > 0 THEN 1 ELSE NULL

\* the loop of evg_open: the first device of that name, or NULL
Search(name) ==
    IF \E i \in 1..deviceCount : devices[i].name = name
    THEN CHOOSE i \in 1..deviceCount :
             /\ devices[i].name = name
             /\ \A j \in 1..(i - 1) : devices[j].name # name
    ELSE NULL

\* evg_open(name): the handle is the slot of the device found
evg_open(name) ==
    /\ shell.fn \in {"none", "configure", "open"}
    /\ shell' = [shell EXCEPT
                    !.fn = "open", !.args = [NoArgs EXCEPT !.name = name],
                    !.ret = 0,
                    !.handle = IF strlen(name) = 0 \/ strlen(name) >= NAME_LENGTH
                               THEN NULL ELSE Search(name)]
    /\ UNCHANGED <<record, th, mutex, card, flight, hist, last, devices, deviceCount>>

\* the strings of the model
Name1 == <<"e", "v", "g", "1">>
Name2 == <<"e", "v", "g", "2">>
Name9 == <<"e", "v", "g", "9">>
LongName == [i \in 1..NAME_LENGTH |-> "x"]
Ip1 == <<"1", "0", ".", "0", ".", "0", ".", "1">>
Ip2 == <<"1", "0", ".", "0", ".", "0", ".", "2">>
BadIp == <<"1", "0", ".", "0", ".", "0", ".", "2", "5", "6">>
Port1 == <<"5", "0", "0", "0">>
Hz125M == <<"1", "2", "5", "0", "0", "0", "0", "0", "0">>
Minus1 == <<"-", "1">>
Zero == <<"0">>

\* the table after configure(DeviceName(i), DeviceIp(i), "5000", f) of every
\* device of the model and a successful init
DeviceName(i) == IF i = 1 THEN Name1 ELSE Name2
DeviceIp(i) == IF i = 1 THEN Ip1 ELSE Ip2

Configured(f) ==
    [i \in 1..NUMBER_OF_DEVICES |->
        IF i \in Devs
        THEN [ConfigureRecord(DeviceName(i), DeviceIp(i), atoi(Port1), f)
                 EXCEPT !.socket = 2 + i]
        ELSE NoDevice]

(***************************************************************************)
(* Timestamps.  A timestamp (a float, in seconds) is kept as a whole       *)
(* number of microseconds; the device frequency is in Hz and a multiple of *)
(* 1 MHz.  A cycle count (uint32_t) is kept as its two 16-bit halves.      *)
(***************************************************************************)
MICRO == 1000000

\* devices[d].frequency, as configured
Frequency(d) == devices[d].frequency.hi * 65536 + devices[d].frequency.lo

\* the frequencies of the model: the event clock of 125 MHz, and a power of
\* two
Frequencies == {125 * MICRO, 32 * 65536}

\* floor(2^32 / m) for 0 < m <= 32768, without leaving 32-bit arithmetic
Pow32Div(m) == 65536 * (65536 \div m) + (65536 * (65536 % m)) \div m

\* timestamp > UINT_MAX / (float)frequency, UINT_MAX converting to 2^32: for
\* a frequency of whole MHz, and for one that is a power of two from 2^16 on
\* (2^32 / f is then a whole number of seconds)
TimestampTooLong(us, f) ==
    IF f % MICRO = 0
    THEN us > Pow32Div(f \div MICRO)
    ELSE us > (65536 \div (f \div 65536)) * MICRO

\* (uint32_t)timestamp * frequency: the cast applies to timestamp alone, the
\* product is taken modulo 2^32
ConvertTimestamp(us, f) ==
    LET s == us \div MICRO
        p0 == s * (f % 65536)
    IN  [hi |-> (s * (f \div 65536) + p0 \div 65536) % 65536, lo |-> p0 % 65536]

\* evg_setTimestamp(dev, sequencer, address, timestamp): v is timestamp
evg_setTimestamp(t) ==
    /\ AtStep(t, "setTimestamp")
    /\ CASE th[t].pc = "entry" ->
              IF \/ BadSequencerOrAddress(t)
                 \/ TimestampTooLong(th[t].v, Frequency(th[t].dev))
              THEN FailExit(t)
              ELSE Invoke(t, [Self(t) EXCEPT
                                 !.cycles = ConvertTimestamp(th[t].v, Frequency(th[t].dev))],
                          "address", writecheck(SeqAddress(th[t].n), th[t].address))
         [] th[t].pc = "address" ->
              IF th[t].status < 0 THEN FailExit(t)
              ELSE Invoke(t, Self(t), "high",
                          writecheck(SeqTime(th[t].n), th[t].cycles.hi))
         [] th[t].pc = "high" ->
              IF th[t].status < 0 THEN FailExit(t)
              ELSE Invoke(t, Self(t), "low",
                          writecheck(SeqTime(th[t].n) + 2, th[t].cycles.lo))
         [] OTHER ->
              IF th[t].status < 0 THEN FailExit(t) ELSE Exit(t, 0, 0)

\* evg_getTimestamp(dev, sequencer, address, &timestamp); *timestamp is
\* cycles / (float)frequency, kept as the cycle count
evg_getTimestamp(t) ==
    /\ AtStep(t, "getTimestamp")
    /\ CASE th[t].pc = "entry" ->
              IF BadSequencerOrAddress(t) THEN FailExit(t)
              ELSE Invoke(t, Self(t), "address",
                          writecheck(SeqAddress(th[t].n), th[t].address))
         [] th[t].pc = "address" ->
              IF th[t].status < 0 THEN FailExit(t)
              ELSE Invoke(t, Self(t), "high", readreg(SeqTime(th[t].n)))
         [] th[t].pc = "high" ->
              IF th[t].status < 0 THEN FailExit(t)
              ELSE Invoke(t, [Self(t) EXCEPT !.cycles = [hi |-> th[t].data, lo |-> 0]],
                          "low", readreg(SeqTime(th[t].n) + 2))
         [] OTHER ->
              IF th[t].status < 0 THEN FailExit(t)
              ELSE /\ th' = [th EXCEPT ![t].pc = "done", ![t].ret = 0,
                                ![t].tsout = [hi |-> th[t].cycles.hi,
                                              lo |-> BitOr(th[t].cycles.lo, th[t].data)],
                                ![t].status = 0, ![t].data = 0, ![t].cycles = NoCycles]
                   /\ mutex' = Unlocked(th[t].dev)
                   /\ hist' = [hist EXCEPT ![th[t].dev] = <<>>]
                   /\ last' = [last EXCEPT ![th[t].dev] = NoExchange]
                   /\ UNCHANGED <<record, devices, deviceCount, shell, card, flight>>

(***************************************************************************)
(* The callers: worker threads of the record glue, each calling one        *)
(* operation at a time on the device it opened.                            *)
(***************************************************************************)
Operation(op, n, address, v) == [op |-> op, n |-> n, address |-> address, v |-> v]

\* thread t calls operation c
Call(t, c) ==
    /\ th[t].pc \in {"idle", "done"}
    /\ th' = [th EXCEPT ![t] =
                 [IdleThread(th[t].dev) EXCEPT !.op = c.op, !.n = c.n,
                      !.address = c.address, !.v = c.v, !.pc = "lock"]]
    /\ UNCHANGED <<record, devices, deviceCount, shell, mutex, card, flight, hist, last>>

(***************************************************************************)
(* Device support: one record, of type ao (command setTimestamp) or longin *)
(* (command getRfPrescaler).  record.dpvt tells that record->dpvt points   *)
(* to the private structure; device and status are the fields of that      *)
(* structure; pass and ret are the function of the device support that     *)
(* returned last and what it returned.  The worker thread of a request     *)
(* makes its driver call as thread 1.                                      *)
(***************************************************************************)
NoRecord ==
    [type |-> "none", dpvt |-> FALSE, device |-> NULL, status |-> 0,
     pact |-> FALSE, pass |-> "none", ret |-> 0, worker |-> "none",
     workers |-> 0, requests |-> 0]

\* initRecord(record): the link names the device.  The ao support tests the
\* handle with "device < 0", the longin support with "device == NULL".
initRecord(type, name) ==
    /\ record.pass = "none"
    /\ LET device == IF strlen(name) = 0 \/ strlen(name) >= NAME_LENGTH
                     THEN NULL ELSE Search(name)
           failed == IF type = "ao" THEN device < 0 ELSE device = NULL
       IN  record' = IF failed
                     THEN [record EXCEPT !.type = type, !.pass = "init",
                                         !.ret = -1]
                     ELSE [record EXCEPT !.type = type, !.pass = "init",
                                         !.ret = 0, !.dpvt = TRUE,
                                         !.device = device]
    /\ UNCHANGED <<th, mutex, card, flight, hist, last, devices, deviceCount,
                   shell>>

\* the second pass of ioRecord (writeRecord for an ao), PACT being set: the
\* longin support returns -1 when private->status < 0; both clear PACT
Completion(r) ==
    [r EXCEPT !.pact = FALSE, !.pass = "completion",
              !.ret = IF r.type = "longin" /\ r.status < 0 THEN -1 ELSE 0]

\* the first pass of ioRecord (writeRecord for an ao), PACT being clear:
\* pthread_create starts the worker thread or fails
ioRecord ==
    /\ record.pass # "none"
    /\ ~record.pact
    /\ record.worker = "none"
    /\ record.requests < MaxRequests
    /\ IF ~record.dpvt
       THEN record' = [record EXCEPT !.pass = "first", !.ret = -1,
                                     !.requests = @ + 1]
       ELSE \E created \in BOOLEAN :
               record' = IF created
                         THEN [record EXCEPT !.pass = "first", !.ret = 0,
                                  !.pact = TRUE, !.worker = "created",
                                  !.workers = @ + 1, !.requests = @ + 1]
                         ELSE [record EXCEPT !.pass = "first", !.ret = -1,
                                  !.requests = @ + 1]
    /\ UNCHANGED <<th, mutex, card, flight, hist, last, devices, deviceCount,
                   shell>>

\* thread(record), the worker: the driver call on private->device, then the
\* record is processed again, which is the second pass.  The ao support
\* calls evg_setTimestamp(private->device, record->val), the sequencer and
\* the address being taken as 0; the longin support calls
\* evg_getRfPrescaler and sets private->status = -1 when it failed.  With
\* the handle NULL the driver calls pthread_mutex_lock(&device->mutex)
\* before it tests the handle: the thread faults there, or the call goes
\* through on whatever lies at that address and the driver returns -1.
thread ==
    /\ CASE record.worker = "created" ->
              IF record.device = NULL
              THEN /\ record' = [record EXCEPT !.worker = "lockNull"]
                   /\ UNCHANGED th
              ELSE /\ record' = [record EXCEPT !.worker = "called"]
                   /\ th' = [th EXCEPT ![1] =
                                [IdleThread(record.device) EXCEPT
                                    !.op = IF record.type = "ao"
                                           THEN "setTimestamp"
                                           ELSE "getRfPrescaler",
                                    !.v = IF record.type = "ao" THEN 8 ELSE 0,
                                    !.pc = "lock"]]
         [] record.worker = "lockNull" ->
              /\ \E fault \in BOOLEAN :
                    record' = IF fault
                              THEN [record EXCEPT !.worker = "crashed"]
                              ELSE Completion([record EXCEPT
                                       !.worker = "none", !.workers = @ - 1,
                                       !.status = IF record.type = "longin"
                                                  THEN -1 ELSE @])
              /\ UNCHANGED th
         [] record.worker = "called" /\ th[1].pc = "done" ->
              /\ record' = Completion([record EXCEPT
                               !.worker = "none", !.workers = @ - 1,
                               !.status = IF record.type = "longin"
                                             /\ th[1].ret < 0
                                          THEN -1 ELSE @])
              /\ UNCHANGED th
         [] OTHER -> FALSE
    /\ UNCHANGED <<mutex, card, flight, hist, last, devices, deviceCount, shell>>

\* thread t calls operation c on the handle evg_open(name) returned
CallOn(t, name, c) ==
    /\ th[t].pc \in {"idle", "done"}
    /\ Search(name) # NULL
    /\ th' = [th EXCEPT ![t] =
                 [IdleThread(Search(name)) EXCEPT !.op = c.op, !.n = c.n,
                      !.address = c.address, !.v = c.v, !.pc = "lock"]]
    /\ UNCHANGED <<record, devices, deviceCount, shell, mutex, card, flight, hist, last>>

\* devices[d].socket is a descriptor socket() returned to init: the table is
\* static, so the socket of a device init did not reach is 0, and after a
\* failed socket() it is -1
InitOpened(d) == devices[d].socket >= 3

\* init(), run by iocInit on thread 1: for each configured device the mutex,
\* the socket, connect() and evg_enable(&devices[device], 0); socket() and
\* connect() succeed or fail.  shell.device is the loop variable, plus one.
init ==
    /\ shell.fn = "init"
    /\ CASE shell.pc = "loop" ->
              IF shell.device > deviceCount
              THEN /\ shell' = [shell EXCEPT !.pc = "returned", !.ret = 0]
                   /\ UNCHANGED <<record, th, mutex, card, flight, hist, last, devices,
                                  deviceCount>>
              ELSE \E fd \in {-1, 2 + shell.device}, status \in {-1, 0} :
                      /\ mutex' = [mutex EXCEPT ![shell.device] = NoThread]
                      /\ devices' = [devices EXCEPT ![shell.device].socket = fd]
                      /\ IF fd < 0 \/ status < 0
                         THEN /\ shell' = [shell EXCEPT !.pc = "returned", !.ret = -1]
                              /\ UNCHANGED th
                         ELSE /\ shell' = [shell EXCEPT !.pc = "enable"]
                              /\ th' = [th EXCEPT ![1] =
                                           [IdleThread(shell.device) EXCEPT
                                               !.op = "enable", !.v = 0,
                                               !.pc = "lock"]]
                      /\ UNCHANGED <<record, card, flight, hist, last, deviceCount>>
         [] shell.pc = "enable" ->
              /\ th[1].pc = "done"
              /\ shell' = IF th[1].ret < 0
                          THEN [shell EXCEPT !.pc = "returned", !.ret = -1]
                          ELSE [shell EXCEPT !.pc = "loop", !.device = @ + 1]
              /\ UNCHANGED <<record, th, mutex, card, flight, hist, last, devices,
                             deviceCount>>
         [] OTHER -> FALSE

\* The operations the threads call, with their arguments.  Thread 1 calls
\* every operation, with accepted and with rejected arguments; the other
\* threads contend for the device with a latched operation.
SECOND == MICRO
SeqArgs == {<<0, 0>>, <<1, 1>>, <<2, 0>>, <<0, 2048>>}

AllCalls ==
    {Operation("enable", 0, 0, v) : v \in {0, 1}}
    \cup {Operation("isEnabled", 0, 0, 0)}
    \cup {Operation("setRfPrescaler", 0, 0, v) : v \in {0, 4, 31, 32}}
    \cup {Operation("enableSequencer", n, 0, 1) : n \in {0, 2}}
    \cup {Operation("setEvent", a[1], a[2], 5) : a \in SeqArgs}
    \cup {Operation("getEvent", a[1], a[2], 0) : a \in SeqArgs}
    \cup {Operation("setTimestamp", a[1], a[2], SECOND) : a \in {<<1, 1>>, <<0, 2048>>}}
    \cup {Operation("setTimestamp", 0, 0, 40 * SECOND)}
    \cup {Operation("getTimestamp", a[1], a[2], 0) : a \in {<<0, 0>>, <<2, 0>>}}

ContenderCalls ==
    {Operation("getEvent", 0, 1, 0)}

Calls(t) == IF t = 1 THEN AllCalls ELSE ContenderCalls

Operations(t) ==
    \/ evg_enable(t)
    \/ evg_isEnabled(t)
    \/ evg_setRfPrescaler(t)
    \/ evg_enableSequencer(t)
    \/ evg_setEvent(t)
    \/ evg_getEvent(t)
    \/ evg_setTimestamp(t)
    \/ evg_getTimestamp(t)

Init ==
    /\ th = [t \in Threads |-> IdleThread(1)]
    /\ mutex = [d \in Devs |-> NoThread]
    /\ card = [d \in Devs |-> CardInit]
    /\ flight = [d \in Devs |-> <<>>]
    /\ hist = [d \in Devs |-> <<>>]
    /\ last = [d \in Devs |-> NoExchange]
    /\ devices = Configured(125 * MICRO)
    /\ deviceCount = Cardinality(Devs)
    /\ shell = NoShell
    /\ record = NoRecord

(***************************************************************************)
(* Spec: any card, and a network that loses requests and replies but       *)
(* delivers a reply within the timeout if it delivers it at all.  write()  *)
(* may fail, and a register may read as anything.                          *)
(***************************************************************************)
Next ==
    \E t \in Threads :
        \/ \E c \in Calls(t) : Call(t, c)
        \/ pthread_mutex_lock(t)
        \/ Operations(t)
        \/ SocketWrite(t, {"lost", "reply"}, "any")
        \/ WriteFails(t)
        \/ PollTimeout(t)
        \/ SocketRead(t)

Spec == Init /\ [][Next]_vars

(***************************************************************************)
(* SpecLate: the network may also deliver a reply after the 1000 ms of the *)
(* attempt it answers.  The callers read and set single registers.         *)
(***************************************************************************)
LateCalls(t) ==
    IF t = 1
    THEN {Operation("setRfPrescaler", 0, 0, 4), Operation("isEnabled", 0, 0, 0)}
    ELSE {Operation("isEnabled", 0, 0, 0)}

NextLate ==
    \E t \in Threads :
        \/ \E c \in LateCalls(t) : Call(t, c)
        \/ pthread_mutex_lock(t)
        \/ evg_isEnabled(t)
        \/ evg_setRfPrescaler(t)
        \/ SocketWrite(t, {"lost", "reply"}, "stores")
        \/ PollTimeout(t)
        \/ PollTimeoutLate(t)
        \/ SocketRead(t)

SpecLate == Init /\ [][NextLate]_vars

(***************************************************************************)
(* SpecSilent: the card never replies.  Every request is sent and lost.    *)
(***************************************************************************)
NextSilent ==
    \E t \in Threads :
        \/ \E c \in Calls(t) : Call(t, c)
        \/ pthread_mutex_lock(t)
        \/ Operations(t)
        \/ SocketWrite(t, {"lost"}, "stores")
        \/ PollTimeout(t)

SpecSilent == Init /\ [][NextSilent]_vars

(***************************************************************************)
(* SpecReliable: a card that stores what is written and answers every      *)
(* request, on a network that loses nothing.  Thread 1 sets an event and   *)
(* then reads it back (v carries the event code into the evg_getEvent      *)
(* call, which does not use it); the other threads set and get events at   *)
(* other addresses of both sequencers and set the prescaler of a counter.  *)
(***************************************************************************)
RoundTripArgs == {<<0, 0>>, <<1, 2047>>}
RoundTripEvents == {5, 127}

SetCalls ==
    {Operation("setEvent", a[1], a[2], e) : a \in RoundTripArgs, e \in RoundTripEvents}

CounterCalls ==
    {Operation("setCounterPrescaler", c, 0, 74565) : c \in {5, 8}}

OtherCalls ==
    {Operation("setEvent", n, 1, 9) : n \in {0, 1}}
    \cup {Operation("getEvent", n, 1, 0) : n \in {0, 1}}

\* evg_getEvent(dev, n, a, &event) called after evg_setEvent(dev, n, a, v)
\* returned
GetAfterSet(t) ==
    /\ th[t].op = "setEvent"
    /\ Call(t, Operation("getEvent", th[t].n, th[t].address, th[t].v))

NextReliable ==
    \E t \in Threads :
        \/ (t = 1 /\ \E c \in SetCalls : Call(t, c))
        \/ (t = 1 /\ GetAfterSet(t))
        \/ (t # 1 /\ \E c \in OtherCalls \cup CounterCalls : Call(t, c))
        \/ pthread_mutex_lock(t)
        \/ evg_setEvent(t)
        \/ evg_getEvent(t)
        \/ evg_setCounterPrescaler(t)
        \/ SocketWrite(t, {"reply"}, "stores")
        \/ SocketRead(t)

SpecReliable == Init /\ [][NextReliable]_vars

(***************************************************************************)
(* SpecStamp: timestamps against a card that stores what is written, on a  *)
(* network that loses nothing, for a device configured with either         *)
(* frequency.  Thread 1 sets a timestamp and, when that succeeded, reads it *)
(* back (v carries the timestamp set into the evg_getTimestamp call, which *)
(* does not use it); the other threads read a timestamp elsewhere.         *)
(***************************************************************************)
StampArgs == {<<0, 0>>, <<1, 1>>}
Stamps == {8, SECOND, SECOND + SECOND \div 2, 40 * SECOND, 2048 * SECOND}

StampCalls ==
    {Operation("setTimestamp", a[1], a[2], us) : a \in StampArgs, us \in Stamps}

OtherStampCalls == {Operation("getTimestamp", 0, 2047, 0)}

\* evg_getTimestamp(dev, n, a, &timestamp) called after
\* evg_setTimestamp(dev, n, a, v) returned success
GetStampAfterSet(t) ==
    /\ th[t].op = "setTimestamp"
    /\ th[t].ret = 0
    /\ Call(t, Operation("getTimestamp", th[t].n, th[t].address, th[t].v))

InitStamp ==
    /\ th = [t \in Threads |-> IdleThread(1)]
    /\ mutex = [d \in Devs |-> NoThread]
    /\ card = [d \in Devs |-> CardInit]
    /\ flight = [d \in Devs |-> <<>>]
    /\ hist = [d \in Devs |-> <<>>]
    /\ last = [d \in Devs |-> NoExchange]
    /\ devices \in {Configured(f) : f \in Frequencies}
    /\ deviceCount = Cardinality(Devs)
    /\ shell = NoShell
    /\ record = NoRecord

NextStamp ==
    \E t \in Threads :
        \/ (t = 1 /\ \E c \in StampCalls : Call(t, c))
        \/ (t = 1 /\ GetStampAfterSet(t))
        \/ (t # 1 /\ \E c \in OtherStampCalls : Call(t, c))
        \/ pthread_mutex_lock(t)
        \/ evg_setTimestamp(t)
        \/ evg_getTimestamp(t)
        \/ SocketWrite(t, {"reply"}, "stores")
        \/ SocketRead(t)

SpecStamp == InitStamp /\ [][NextStamp]_vars

(***************************************************************************)
(* SpecRegs: the operations on the enable and source registers against a   *)
(* card that stores what is written and answers every request, its         *)
(* registers holding either of two contents when the driver starts.        *)
(* Thread 1 reads a source after it set it with success (v carries the     *)
(* source set into the get call, which does not use it); the other threads *)
(* only read.                                                              *)
(***************************************************************************)
RegCalls ==
    {Operation("enableSequencer", n, 0, on) : n \in {0, 1, 2}, on \in {0, 1}}
    \cup {Operation("isSequencerEnabled", n, 0, 0) : n \in {0, 1, 2}}
    \cup {Operation("setSequencerTriggerSource", n, 0, src) : n \in {0, 1, 2}, src \in {0, 1}}
    \cup {Operation("triggerSequencer", n, 0, 0) : n \in {0, 1, 2}}
    \cup {Operation("getSequencerTriggerSource", n, 0, 0) : n \in {0, 1, 2}}
    \cup {Operation("setRfClockSource", 0, 0, src) :
              src \in {RF_SOURCE_INTERNAL, RF_SOURCE_EXTERNAL}}
    \cup {Operation("setAcSyncSource", 0, 0, src) :
              src \in {AC_SOURCE_EVENT, AC_SOURCE_MXC7}}

OtherRegCalls == {Operation("isSequencerEnabled", 0, 0, 0)}

\* evg_getRfClockSource / evg_getAcSyncSource called after the matching set
\* returned success
GetSourceAfterSet(t) ==
    /\ th[t].op \in {"setRfClockSource", "setAcSyncSource"}
    /\ th[t].ret = 0
    /\ Call(t, Operation(IF th[t].op = "setRfClockSource"
                         THEN "getRfClockSource" ELSE "getAcSyncSource",
                         0, 0, th[t].v))

\* register contents at start: all zero, or RF_CONTROL = 0x01C5 and
\* AC_ENABLE = 0x1032 (sync bit set, divider 50)
StartRegs ==
    {CardInit.regs,
     [CardInit.regs EXCEPT ![REGISTER_RF_CONTROL] = 453,
                           ![REGISTER_AC_ENABLE] = 4146]}

InitRegs ==
    /\ th = [t \in Threads |-> IdleThread(1)]
    /\ mutex = [d \in Devs |-> NoThread]
    /\ card \in {[d \in Devs |-> [CardInit EXCEPT !.regs = r]] : r \in StartRegs}
    /\ flight = [d \in Devs |-> <<>>]
    /\ hist = [d \in Devs |-> <<>>]
    /\ last = [d \in Devs |-> NoExchange]
    /\ devices = Configured(125 * MICRO)
    /\ deviceCount = Cardinality(Devs)
    /\ shell = NoShell
    /\ record = NoRecord

NextRegs ==
    \E t \in Threads :
        \/ (t = 1 /\ \E c \in RegCalls : Call(t, c))
        \/ (t = 1 /\ GetSourceAfterSet(t))
        \/ (t # 1 /\ \E c \in OtherRegCalls : Call(t, c))
        \/ pthread_mutex_lock(t)
        \/ evg_enableSequencer(t)
        \/ evg_isSequencerEnabled(t)
        \/ evg_setSequencerTriggerSource(t)
        \/ evg_getSequencerTriggerSource(t)
        \/ evg_triggerSequencer(t)
        \/ evg_setRfClockSource(t)
        \/ evg_getRfClockSource(t)
        \/ evg_setAcSyncSource(t)
        \/ evg_getAcSyncSource(t)
        \/ SocketWrite(t, {"reply"}, "stores")
        \/ SocketRead(t)

SpecRegs == InitRegs /\ [][NextRegs]_vars

(***************************************************************************)
(* SpecSettings: the device enable, the two prescalers and the event codes *)
(* against a card that stores what is written and answers every request.   *)
(* Thread 1 sets a value and, when that succeeded, reads it back (v        *)
(* carries the value set into the get call, which does not use it); the    *)
(* other threads only read the control register.                           *)
(***************************************************************************)
SettingCalls ==
    {Operation("enable", 0, 0, on) : on \in {0, 1}}
    \cup {Operation("setRfPrescaler", 0, 0, p) : p \in {1, 31}}
    \cup {Operation("setSequencerPrescaler", n, 0, 300) : n \in {0, 2}}
    \cup {Operation("setEvent", 0, 0, 128), Operation("setEvent", 0, 2048, 5)}

OtherSettingCalls == {Operation("isEnabled", 0, 0, 0)}

\* the get operation of each set operation
Getter(op) ==
    CASE op = "enable" -> "isEnabled"
      [] op = "setRfPrescaler" -> "getRfPrescaler"
      [] OTHER -> "getSequencerPrescaler"

\* the get operation called after the set operation returned success
GetSettingAfterSet(t) ==
    /\ th[t].op \in {"enable", "setRfPrescaler", "setSequencerPrescaler"}
    /\ th[t].ret = 0
    /\ Call(t, Operation(Getter(th[t].op), th[t].n, 0, th[t].v))

NextSettings ==
    \E t \in Threads :
        \/ (t = 1 /\ \E c \in SettingCalls : Call(t, c))
        \/ (t = 1 /\ GetSettingAfterSet(t))
        \/ (t # 1 /\ \E c \in OtherSettingCalls : Call(t, c))
        \/ pthread_mutex_lock(t)
        \/ evg_enable(t)
        \/ evg_isEnabled(t)
        \/ evg_setRfPrescaler(t)
        \/ evg_getRfPrescaler(t)
        \/ evg_setSequencerPrescaler(t)
        \/ evg_getSequencerPrescaler(t)
        \/ evg_setEvent(t)
        \/ SocketWrite(t, {"reply"}, "stores")
        \/ SocketRead(t)

SpecSettings == InitRegs /\ [][NextSettings]_vars

(***************************************************************************)
(* SpecRegistry: the device table.  The start-up script holds at most      *)
(* MaxLines configure lines, with accepted and with rejected arguments; it *)
(* starts on an empty table or goes on after eight devices were            *)
(* configured.  evg_open is called with any name at any time.              *)
(***************************************************************************)
ScriptLines ==
    {ConfigureArgs(Name1, Ip1, Port1, Hz125M),
     ConfigureArgs(Name2, Ip2, Minus1, Hz125M),
     ConfigureArgs(Name2, Ip2, Port1, Minus1),
     ConfigureArgs(<<>>, Ip1, Port1, Hz125M),
     ConfigureArgs(LongName, Ip1, Port1, Hz125M),
     ConfigureArgs(Name9, BadIp, Port1, Hz125M),
     ConfigureArgs(Name9, Ip1, Zero, Hz125M),
     ConfigureArgs(Name9, Ip1, <<"6", "5", "5", "3", "6">>, Hz125M),
     ConfigureArgs(Name9, Ip1, Port1, Zero)}

OpenNames == {<<>>, Name1, Name2, Name9, LongName}

\* the names of the devices configured before the script goes on
EarlierName(i) == <<"d", <<"1", "2", "3", "4", "5", "6", "7", "8">>[i]>>

\* the table after configure(EarlierName(i), "10.0.0.1", "5000", "125000000")
\* for i = 1..count
Earlier(count) ==
    [i \in 1..NUMBER_OF_DEVICES |->
        IF i <= count
        THEN ConfigureRecord(EarlierName(i), Ip1, atoi(Port1), atoi(Hz125M))
        ELSE NoDevice]

InitRegistry ==
    /\ th = [t \in Threads |-> IdleThread(1)]
    /\ mutex = [d \in Devs |-> NoThread]
    /\ card = [d \in Devs |-> CardInit]
    /\ flight = [d \in Devs |-> <<>>]
    /\ hist = [d \in Devs |-> <<>>]
    /\ last = [d \in Devs |-> NoExchange]
    /\ deviceCount \in {0, 8}
    /\ devices = Earlier(deviceCount)
    /\ shell = NoShell
    /\ record = NoRecord

NextRegistry ==
    \/ \E a \in ScriptLines : configure(a)
    \/ \E name \in OpenNames : evg_open(name)

SpecRegistry == InitRegistry /\ [][NextRegistry]_vars

(***************************************************************************)
(* SpecStartup: iocInit calls init() after two devices were configured,    *)
(* with either frequency.  The cards answer anything or nothing, and       *)
(* write() may fail.                                                       *)
(***************************************************************************)
InitStartup ==
    /\ th = [t \in Threads |-> IdleThread(1)]
    /\ mutex = [d \in Devs |-> NoThread]
    /\ card = [d \in Devs |-> CardInit]
    /\ flight = [d \in Devs |-> <<>>]
    /\ hist = [d \in Devs |-> <<>>]
    /\ last = [d \in Devs |-> NoExchange]
    /\ devices \in {[i \in 1..NUMBER_OF_DEVICES |->
                         [Configured(f)[i] EXCEPT !.socket = 0]] :
                     f \in Frequencies}
    /\ deviceCount = Cardinality(Devs)
    /\ shell = [NoShell EXCEPT !.fn = "init", !.device = 1, !.pc = "loop"]
    /\ record = NoRecord

NextStartup ==
    \/ init
    \/ \E t \in Threads :
        \/ (/\ t # 1 /\ shell.pc = "returned"
            /\ \E d \in Devs : CallOn(t, DeviceName(d), Operation("enable", 0, 0, 1)))
        \/ pthread_mutex_lock(t)
        \/ evg_enable(t)
        \/ (InitOpened(th[t].dev) /\ SocketWrite(t, {"lost", "reply"}, "any"))
        \/ (devices[th[t].dev].socket = 0 /\ SocketWrite(t, {"lost"}, "any"))
        \/ WriteFails(t)
        \/ PollTimeout(t)
        \/ SocketRead(t)

SpecStartup == InitStartup /\ [][NextStartup]_vars

(***************************************************************************)
(* SpecDevices: two devices, thread t working on device t.  Thread 2 keeps  *)
(* running and the network of its device delivers or the poll times out;   *)
(* nothing is assumed of thread 1, which may stay in an exchange for ever. *)
(***************************************************************************)
DeviceCalls == {Operation("enable", 0, 0, on) : on \in {0, 1}}

InitDevices ==
    /\ th = [t \in Threads |-> IdleThread(t)]
    /\ mutex = [d \in Devs |-> NoThread]
    /\ card = [d \in Devs |-> CardInit]
    /\ flight = [d \in Devs |-> <<>>]
    /\ hist = [d \in Devs |-> <<>>]
    /\ last = [d \in Devs |-> NoExchange]
    /\ devices = Configured(125 * MICRO)
    /\ deviceCount = Cardinality(Devs)
    /\ shell = NoShell
    /\ record = NoRecord

\* the steps of the operation thread t is in
Progress(t) ==
    \/ pthread_mutex_lock(t)
    \/ evg_enable(t)
    \/ SocketWrite(t, {"lost", "reply"}, "any")
    \/ WriteFails(t)
    \/ PollTimeout(t)
    \/ SocketRead(t)

NextDevices ==
    \E t \in Threads :
        \/ \E c \in DeviceCalls : Call(t, c)
        \/ Progress(t)

SpecDevices == InitDevices /\ [][NextDevices]_vars /\ WF_vars(Progress(2))

(***************************************************************************)
(* SpecWire: any card, on a network that loses datagrams and also brings   *)
(* back replies with a status field that is not zero and replies that are  *)
(* shorter or longer than a message.                                       *)
(***************************************************************************)
WireCalls ==
    {Operation("isEnabled", 0, 0, 0), Operation("setRfPrescaler", 0, 0, 4)}

OtherWireCalls == {Operation("enable", 0, 0, 1)}

NextWire ==
    \E t \in Threads :
        \/ (t = 1 /\ \E c \in WireCalls : Call(t, c))
        \/ (t # 1 /\ \E c \in OtherWireCalls : Call(t, c))
        \/ pthread_mutex_lock(t)
        \/ evg_enable(t)
        \/ evg_isEnabled(t)
        \/ evg_setRfPrescaler(t)
        \/ SocketWrite(t, {"lost", "reply"}, "any")
        \/ SocketWriteFaulty(t, "any")
        \/ WriteFails(t)
        \/ PollTimeout(t)
        \/ SocketRead(t)

SpecWire == Init /\ [][NextWire]_vars

(***************************************************************************)
(* SpecAtomic: two threads call one operation each on the same device at   *)
(* the same time; thread 1 sets a divider or an event, thread 2 a source   *)
(* or an event at another address.  The card stores and answers.           *)
(***************************************************************************)
FirstCalls ==
    {Operation("setRfPrescaler", 0, 0, 4),
     Operation("setAcPrescaler", 0, 0, 50),
     Operation("setEvent", 0, 1, 5)}

SecondCalls ==
    {Operation("setRfClockSource", 0, 0, RF_SOURCE_INTERNAL),
     Operation("setRfClockSource", 0, 0, RF_SOURCE_EXTERNAL),
     Operation("setAcSyncSource", 0, 0, AC_SOURCE_EVENT),
     Operation("setEvent", 0, 2047, 9)}

NextAtomic ==
    \E t \in Threads :
        \/ (t = 1 /\ th[t].pc = "idle" /\ \E c \in FirstCalls : Call(t, c))
        \/ (t # 1 /\ th[t].pc = "idle" /\ \E c \in SecondCalls : Call(t, c))
        \/ pthread_mutex_lock(t)
        \/ evg_setRfPrescaler(t)
        \/ evg_setRfClockSource(t)
        \/ evg_setAcPrescaler(t)
        \/ evg_setAcSyncSource(t)
        \/ evg_setEvent(t)
        \/ SocketWrite(t, {"reply"}, "stores")
        \/ SocketRead(t)

SpecAtomic == InitRegs /\ [][NextAtomic]_vars

(***************************************************************************)
(* SpecFair: two threads keep calling operations on one device whose card  *)
(* answers, answers with datagrams of another size, or is silent, on a     *)
(* network where write() may fail.  A thread that can take a step of its   *)
(* operation takes it (poll returns after a second at the latest), and a   *)
(* thread in pthread_mutex_lock is not passed over for ever when the mutex *)
(* is released again and again.                                            *)
(***************************************************************************)
FairCalls == {Operation("setTimestamp", 0, 1, 8)}

OtherFairCalls == {Operation("isEnabled", 0, 0, 0)}

\* the steps of thread t between pthread_mutex_lock and the return
Running(t) ==
    \/ evg_isEnabled(t)
    \/ evg_setTimestamp(t)
    \/ SocketWrite(t, {"lost", "reply"}, "stores")
    \/ SocketWriteAltered(t, "stores", {0}, {8, 16})
    \/ WriteFails(t)
    \/ PollTimeout(t)
    \/ SocketRead(t)

NextFair ==
    \E t \in Threads :
        \/ (t = 1 /\ \E c \in FairCalls : Call(t, c))
        \/ (t # 1 /\ \E c \in OtherFairCalls : Call(t, c))
        \/ pthread_mutex_lock(t)
        \/ Running(t)

SpecFair ==
    /\ Init
    /\ [][NextFair]_vars
    /\ \A t \in Threads : WF_vars(Running(t)) /\ SF_vars(pthread_mutex_lock(t))

(***************************************************************************)
(* SpecRecord: a record whose link names a configured device or a device   *)
(* that was never configured is initialised and then processed, at most    *)
(* MaxRequests times.  The card stores and answers, and the network loses  *)
(* datagrams.                                                              *)
(***************************************************************************)
NextRecord ==
    \/ \E type \in {"ao", "longin"}, name \in {Name1, Name9} :
           initRecord(type, name)
    \/ ioRecord
    \/ thread
    \/ \E t \in Threads :
           \/ pthread_mutex_lock(t)
           \/ evg_getRfPrescaler(t)
           \/ evg_setTimestamp(t)
           \/ SocketWrite(t, {"lost", "reply"}, "stores")
           \/ PollTimeout(t)
           \/ SocketRead(t)

SpecRecord == Init /\ [][NextRecord]_vars

(***************************************************************************)
(* Properties of the device access layer.                                  *)
(***************************************************************************)
Inside(t) == th[t].pc \notin {"idle", "lock", "done"}

\* C1: on every device at most one thread is inside an operation; a thread
\* sends a request or waits for a reply only while it holds the device's
\* mutex, and all the exchanges made since the mutex was last released are
\* the holder's: the exchanges of two operations never interleave.
C1_MutualExclusion ==
    \A d \in Devs :
        /\ Cardinality({t \in Threads : th[t].dev = d /\ Inside(t)}) <= 1
        /\ \A t \in Threads : (th[t].dev = d /\ Inside(t)) => mutex[d] = t
        /\ \A i \in 1..Len(hist[d]) : hist[d][i].thread = mutex[d]

\* thread 1 waits for a reply, with exchanges behind it, while thread 2 is
\* blocked in pthread_mutex_lock
C1_Witness ==
    /\ InExchange(1) /\ th[1].call.phase = "poll"
    /\ Len(hist[1]) >= 2
    /\ th[2].pc = "lock"

\* C2: an operation that has returned, with success or with failure, does
\* not hold the mutex of its device; the mutex is free whenever no thread is
\* inside an operation on the device.
C2_MutexReleased ==
    \A d \in Devs :
        /\ \A t \in Threads : (th[t].dev = d /\ ~Inside(t)) => mutex[d] # t
        /\ (\A t \in Threads : th[t].dev = d => ~Inside(t)) => MutexFree(d)

\* thread 1 returned failure from evg_setTimestamp after register traffic,
\* and thread 2 then got the mutex and is in an exchange
C2_Witness ==
    /\ th[1].pc = "done" /\ th[1].op = "setTimestamp"
    /\ th[1].ret = -1 /\ th[1].sent > 0
    /\ mutex[1] = 2 /\ InExchange(2)

\* C4: the read-back of a writecheck directly follows, in the device's
\* exchanges, the successful writereg of the same thread to the same register
\* with the data to verify; writecheck returns success exactly when that
\* read-back succeeded and returned the data written.
C4_WriteCheck ==
    \A d \in Devs :
        /\ \A i \in 1..Len(hist[d]) :
              (hist[d][i].wc /\ hist[d][i].access = ACCESS_READ) =>
                  /\ i + 1 <= Len(hist[d])
                  /\ hist[d][i + 1].wc
                  /\ hist[d][i + 1].access = ACCESS_WRITE
                  /\ hist[d][i + 1].ok
                  /\ hist[d][i + 1].thread = hist[d][i].thread
                  /\ hist[d][i + 1].reg = hist[d][i].reg
                  /\ hist[d][i + 1].data = hist[d][i].want
        /\ \A t \in Threads :
              (th[t].dev = d /\ Inside(t) /\ ~InExchange(t)
                 /\ hist[d] # <<>> /\ hist[d][1].wc) =>
                  (th[t].status = 0 <=>
                      /\ hist[d][1].access = ACCESS_READ
                      /\ hist[d][1].ok
                      /\ hist[d][1].data = hist[d][1].want)

\* a writecheck of a non-zero value has just returned success
C4_Witness ==
    \E t \in Threads :
        /\ Inside(t) /\ ~InExchange(t) /\ th[t].status = 0
        /\ hist[1] # <<>> /\ hist[1][1].wc /\ hist[1][1].access = ACCESS_READ
        /\ hist[1][1].want = 1907

\* the address latch that selects the entry a data-window register reaches
LatchOf(reg) ==
    IF WindowSeq(reg) = 0 THEN REGISTER_SEQ_ADDRESS0 ELSE REGISTER_SEQ_ADDRESS1

WindowRegs == {REGISTER_SEQ_CODE0, REGISTER_SEQ_TIME0, REGISTER_SEQ_TIME0 + 2,
               REGISTER_SEQ_CODE1, REGISTER_SEQ_TIME1, REGISTER_SEQ_TIME1 + 2}

\* C5: when an operation on a sequence-RAM entry accesses SEQ_CODEn or
\* SEQ_TIMEn, the exchanges of its own call so far contain the write of the
\* entry's address to SEQ_ADDRESSn and, directly after it, the read-back that
\* returned this address; everything between that read-back and the access
\* is a completed access of the same operation to the data window of the same
\* sequencer.
C5_LatchBeforeData ==
    \A t \in Threads :
        (InExchange(t) /\ th[t].call.reg \in WindowRegs) =>
            LET h == hist[th[t].dev]
                n == th[t].n
                a == LatchOf(th[t].call.reg)
            IN  /\ WindowSeq(th[t].call.reg) = (IF n # 0 THEN 1 ELSE 0)
                /\ \E i \in 1..(Len(h) - 1) :
                      /\ h[i].thread = t /\ h[i].access = ACCESS_READ
                      /\ h[i].reg = a /\ h[i].ok /\ h[i].data = th[t].address
                      /\ h[i + 1].thread = t /\ h[i + 1].access = ACCESS_WRITE
                      /\ h[i + 1].reg = a /\ h[i + 1].ok
                      /\ h[i + 1].data = th[t].address
                      /\ \A j \in 1..(i - 1) :
                            /\ h[j].thread = t /\ h[j].ok
                            /\ h[j].reg \in WindowRegs
                            /\ LatchOf(h[j].reg) = a

\* evg_setTimestamp on sequencer 1 waits for the read-back of the low half,
\* its latch and the high half behind it
C5_Witness ==
    /\ th[1].op = "setTimestamp" /\ th[1].n = 1 /\ th[1].address = 1
    /\ InExchange(1) /\ th[1].call.fn = "readreg"
    /\ th[1].call.reg = REGISTER_SEQ_TIME1 + 2
    /\ th[1].call.phase = "poll"
    /\ Len(hist[1]) = 5

\* C6: an exchange makes at most NUMBER_OF_RETRIES attempts; it succeeds
\* exactly when one of them was answered by a complete reply (the third
\* included), and it fails only after NUMBER_OF_RETRIES attempts.
C6_BoundedRetry ==
    /\ \A t \in Threads :
          /\ th[t].call.retries < NUMBER_OF_RETRIES
          /\ Inside(t) =>
                th[t].sent <= NUMBER_OF_RETRIES * (Len(hist[th[t].dev]) + 1)
    /\ \A d \in Devs :
          last[d].thread # NoThread =>
              /\ last[d].tries \in 1..NUMBER_OF_RETRIES
              /\ last[d].ok <=> last[d].answered
              /\ ~last[d].ok => last[d].tries = NUMBER_OF_RETRIES

\* two attempts went unanswered and the third was answered: success
C6_Witness ==
    /\ last[1].thread = 1 /\ last[1].tries = NUMBER_OF_RETRIES
    /\ last[1].answered /\ last[1].ok
    /\ hist[1] # <<>> /\ hist[1][1].ok
    /\ th[1].sent = NUMBER_OF_RETRIES /\ th[1].status = 0

\* C8: an operation that finds a failed step returns failure as its next
\* step without sending another request (evg_setEvent whose latch failed
\* never writes the event code; evg_setRfPrescaler whose read-back differs
\* returns after READ, WRITE, READ), and a writecheck whose write failed
\* does not read back.
C8_FailureAborts ==
    /\ [](\A d \in Devs :
            (hist[d] # <<>> /\ hist[d][1].wc /\ ~hist[d][1].ok) =>
                /\ ~InExchange(hist[d][1].thread)
                /\ th[hist[d][1].thread].status < 0)
    /\ [][\A t \in Threads :
            (Inside(t) /\ th[t].pc # "entry" /\ ~InExchange(t) /\ th[t].status < 0) =>
                \/ th'[t] = th[t]
                \/ /\ th'[t].pc = "done" /\ th'[t].ret = -1
                   /\ th'[t].sent = th[t].sent
                   /\ mutex'[th[t].dev] = NoThread]_vars

\* evg_setRfPrescaler(dev, 4): the register was read, the write of 3 was
\* acknowledged, the read-back returned something else; three datagrams
C8_Witness ==
    /\ th[1].op = "setRfPrescaler" /\ th[1].v = 4 /\ th[1].pc = "check"
    /\ ~InExchange(1) /\ th[1].status < 0 /\ th[1].sent = 3
    /\ Len(hist[1]) = 3
    /\ hist[1][3].access = ACCESS_READ /\ hist[1][3].ok
    /\ hist[1][2].access = ACCESS_WRITE /\ hist[1][2].ok /\ hist[1][2].data = 3
    /\ hist[1][1].access = ACCESS_READ /\ hist[1][1].ok /\ hist[1][1].data # 3

\* C10: evg_setRfPrescaler with a prescaler of 0 or of 32 and more sends no
\* request and returns failure.
C10_PrescalerRejected ==
    \A t \in Threads :
        (th[t].op = "setRfPrescaler" /\ (th[t].v = 0 \/ th[t].v >= 32)) =>
            /\ th[t].sent = 0
            /\ th[t].pc = "done" => th[t].ret = -1

\* C3: no exchange takes as its reply a datagram the card sent in answer to
\* a request of an exchange that was over when this one began.
C3_NoStaleReply ==
    \A d \in Devs : ~last[d].late

\* the argument checks of the operations
Rejected(t) ==
    CASE th[t].op \in {"setEvent", "getEvent", "getTimestamp"} ->
              th[t].n >= NUMBER_OF_SEQUENCERS \/ th[t].address >= NUMBER_OF_ADDRESSES
      [] th[t].op = "setTimestamp" ->
              \/ th[t].n >= NUMBER_OF_SEQUENCERS
              \/ th[t].address >= NUMBER_OF_ADDRESSES
              \/ TimestampTooLong(th[t].v, Frequency(th[t].dev))
      [] th[t].op = "enableSequencer" -> th[t].n >= NUMBER_OF_SEQUENCERS
      [] th[t].op = "setRfPrescaler" -> th[t].v >= 32
      [] OTHER -> FALSE

\* C7: against a card that never replies every operation returns failure
\* with the mutex released; an operation whose arguments were accepted has
\* then sent exactly three datagrams, those of its first exchange, and no
\* operation ever sends more.
C7_SilentCard ==
    /\ \A t \in Threads :
          /\ th[t].sent <= NUMBER_OF_RETRIES
          /\ th[t].pc = "done" =>
                /\ th[t].ret = -1
                /\ mutex[th[t].dev] # t
                /\ th[t].sent = (IF Rejected(t) THEN 0 ELSE NUMBER_OF_RETRIES)
    /\ \A d \in Devs :
          (\A t \in Threads : th[t].dev = d => ~Inside(t)) => MutexFree(d)

\* evg_setTimestamp, an operation of six exchanges, has returned failure
\* after three datagrams and nobody holds the mutex
C7_Witness ==
    /\ th[1].pc = "done" /\ th[1].op = "setTimestamp" /\ ~Rejected(1)
    /\ th[1].ret = -1 /\ th[1].sent = NUMBER_OF_RETRIES
    /\ MutexFree(1)

\* C9: against a card that stores what is written and answers every
\* request, evg_setEvent(n, a, c) succeeds and the evg_getEvent(n, a) that
\* follows it succeeds and returns c, whatever the other threads set and get
\* at other addresses in between.
C9_EventRoundTrip ==
    th[1].pc = "done" =>
        /\ th[1].ret = 0
        /\ th[1].op = "getEvent" => th[1].out = th[1].v

\* thread 1 read back 127 from address 2047 of sequencer 1 while the other
\* thread, which has stored events in both sequencers, is setting one again
C9_Witness ==
    /\ th[1].pc = "done" /\ th[1].op = "getEvent"
    /\ th[1].n = 1 /\ th[1].address = 2047 /\ th[1].out = 127
    /\ card[1].ram[1][1].code = 9
    /\ card[1].ram[0][1].code = 9
    /\ card[1].ram[0][0].code = 5
    /\ th[2].op = "setEvent" /\ th[2].pc = "lock"

\* C11: the exchanges of evg_setRfPrescaler(dev, p), p in 1..31, are in this
\* order a READ of RF_CONTROL giving old, a WRITE of RF_CONTROL whose data
\* has p - 1 in the divider field (the low six bits) and the bits of old
\* everywhere else, and a READ of RF_CONTROL that verifies it; there is no
\* fourth, and the operation succeeds only after the three.
C11_RfPrescalerExchanges ==
    \A t \in Threads :
        (th[t].op = "setRfPrescaler" /\ th[t].v \in 1..31 /\ Inside(t)) =>
            LET h == hist[th[t].dev]
                k == Len(h)
            IN  /\ k <= 3
                /\ k >= 1 => /\ h[k].access = ACCESS_READ /\ ~h[k].wc
                             /\ h[k].reg = REGISTER_RF_CONTROL
                /\ k >= 2 => /\ h[k - 1].access = ACCESS_WRITE
                             /\ h[k - 1].reg = REGISTER_RF_CONTROL
                             /\ h[k].ok
                             /\ h[k - 1].data % 64 = th[t].v - 1
                             /\ h[k - 1].data \div 64 = h[k].data \div 64
                /\ k >= 3 => /\ h[k - 2].access = ACCESS_READ /\ h[k - 2].wc
                             /\ h[k - 2].reg = REGISTER_RF_CONTROL
                             /\ h[k - 1].ok
                /\ (th[t].pc = "check" /\ ~InExchange(t) /\ th[t].status = 0) =>
                      /\ k = 3
                      /\ h[1].ok /\ h[1].data = h[2].data

\* evg_setRfPrescaler(dev, 4) is about to return success: RF_CONTROL read as
\* 0x01C5, 0x01C3 written and read back
C11_Witness ==
    /\ th[1].op = "setRfPrescaler" /\ th[1].v = 4
    /\ th[1].pc = "check" /\ ~InExchange(1) /\ th[1].status = 0
    /\ Len(hist[1]) = 3
    /\ hist[1][3].data = 453 /\ hist[1][2].data = 451 /\ hist[1][1].data = 451

\* the cycles a timestamp of us microseconds is at a frequency of whole MHz
\* (exact: no rounding is needed), for timestamps of two seconds at most
ExactCycles(us, f) == us * (f \div MICRO)

Measurable(us, f) == f % MICRO = 0 /\ us <= 2 * SECOND

\* C12: evg_setTimestamp writes to SEQ_TIMEn the high half and to
\* SEQ_TIMEn + 2 the low half of the cycles the timestamp is at the device's
\* frequency (8 microseconds at 125 MHz: 0x0000 and 0x03E8), the high half
\* before the low half and both after the address latch.
C12_CyclesWritten ==
    \A t \in Threads :
        (/\ th[t].op = "setTimestamp" /\ InExchange(t)
         /\ th[t].call.fn = "writereg"
         /\ Measurable(th[t].v, Frequency(th[t].dev))) =>
            LET c == ExactCycles(th[t].v, Frequency(th[t].dev))
                h == hist[th[t].dev]
            IN  /\ th[t].call.reg \in {REGISTER_SEQ_TIME0, REGISTER_SEQ_TIME1} =>
                      /\ th[t].call.wdata = c \div 65536
                      /\ Len(h) = 2 /\ h[1].reg = LatchOf(th[t].call.reg)
                /\ th[t].call.reg \in {REGISTER_SEQ_TIME0 + 2, REGISTER_SEQ_TIME1 + 2} =>
                      /\ th[t].call.wdata = c % 65536
                      /\ Len(h) = 4 /\ h[1].reg = th[t].call.reg - 2

\* floor((2^32 - 1) / m)
Max32Div(m) ==
    2 * (2147483647 \div m) + (2 * (2147483647 % m) + 1) \div m

\* timestamp * frequency > 2^32 - 1, for the frequencies of the model
ExceedsUint32(us, f) ==
    IF f % MICRO = 0
    THEN us > Max32Div(f \div MICRO)
    ELSE us >= (65536 \div (f \div 65536)) * MICRO

\* C13: evg_setTimestamp with timestamp * frequency > 2^32 - 1 sends nothing
\* and returns failure, and the cycles of a timestamp it accepts are the
\* product of the whole seconds and the frequency, below 2^32.
C13_TooLongRejected ==
    \A t \in Threads :
        th[t].op = "setTimestamp" =>
            /\ ExceedsUint32(th[t].v, Frequency(th[t].dev)) =>
                  /\ th[t].sent = 0
                  /\ th[t].pc = "done" => th[t].ret = -1
            /\ (Inside(t) /\ th[t].pc # "entry") =>
                  LET f == Frequency(th[t].dev)
                      sec == th[t].v \div MICRO
                  IN  sec * (f \div 65536) + (sec * (f % 65536)) \div 65536 < 65536

\* C14: against a storing card the evg_getTimestamp that follows a
\* successful evg_setTimestamp(n, a, t) succeeds and returns cycles / frequency
\* with cycles within one cycle of t * frequency.
C14_StampRoundTrip ==
    (th[1].pc = "done" /\ th[1].op = "getTimestamp") =>
        /\ th[1].ret = 0
        /\ Measurable(th[1].v, Frequency(1)) =>
              LET got == th[1].tsout.hi * 65536 + th[1].tsout.lo
                  c == ExactCycles(th[1].v, Frequency(1))
              IN  got - c \in {-1, 0, 1}

\* the register as the card holds it
Reg(d, reg) == card[d].regs[reg]

\* C15: against a responding card evg_enableSequencer(dev, n, on), n in
\* {0, 1}, returns success, with the sequencer's bit of EVENT_ENABLE (0x0004
\* for n = 0, 0x0002 for n = 1) set when on and clear when off.
C15_SequencerEnabled ==
    (th[1].pc = "done" /\ th[1].op = "enableSequencer" /\ th[1].n \in {0, 1}) =>
        /\ th[1].ret = 0
        /\ (BitAnd(Reg(1, REGISTER_EVENT_ENABLE),
                   IF th[1].n = 0 THEN 4 ELSE 2) # 0) <=> (th[1].v # 0)

\* C16: against a responding card evg_setSequencerTriggerSource(dev, n, src),
\* n in {0, 1}, returns success after its writes.
C16_TriggerSourceSet ==
    \A t \in Threads :
        (th[t].pc = "done" /\ th[t].op = "setSequencerTriggerSource"
           /\ th[t].n \in {0, 1}) =>
            th[t].ret = 0 /\ th[t].sent >= 2

\* C17: against a responding card evg_triggerSequencer(dev, n), n in {0, 1},
\* returns success after a READ and a WRITE of CONTROL.
C17_SequencerTriggered ==
    \A t \in Threads :
        (th[t].pc = "done" /\ th[t].op = "triggerSequencer" /\ th[t].n \in {0, 1}) =>
            th[t].ret = 0 /\ th[t].sent = 2

\* C18: the only register evg_setAcSyncSource writes is AC_ENABLE.
C18_OnlyAcEnableWritten ==
    \A t \in Threads :
        (th[t].op = "setAcSyncSource" /\ InExchange(t)
           /\ th[t].call.fn = "writereg") =>
            th[t].call.reg = REGISTER_AC_ENABLE

\* C19: evg_getAcSyncSource returns MXC7 exactly when the bit AC_ENABLE_SYNC
\* of AC_ENABLE is set and EVENT otherwise, and after a successful
\* evg_setAcSyncSource(src) it returns src.
C19_AcSyncSourceRead ==
    (th[1].pc = "done" /\ th[1].op = "getAcSyncSource" /\ th[1].ret = 0) =>
        /\ th[1].out = (IF BitAnd(Reg(1, REGISTER_AC_ENABLE), AC_ENABLE_SYNC) # 0
                        THEN AC_SOURCE_MXC7 ELSE AC_SOURCE_EVENT)
        /\ th[1].out = th[1].v

\* C20: evg_getRfClockSource returns EXTERNAL when RF_CONTROL & 0x01C0 is not
\* zero and INTERNAL when it is, and after a successful
\* evg_setRfClockSource(src) it returns src.
C20_RfClockSourceRead ==
    (th[1].pc = "done" /\ th[1].op = "getRfClockSource" /\ th[1].ret = 0) =>
        /\ th[1].out = (IF BitAnd(Reg(1, REGISTER_RF_CONTROL), RF_CONTROL_EXTERNAL) # 0
                        THEN RF_SOURCE_EXTERNAL ELSE RF_SOURCE_INTERNAL)
        /\ th[1].out = th[1].v

\* C21: evg_isEnabled, called after evg_enable(on) returned success, returns
\* on: 1 when bit 0x8000 of the control register is clear, 0 when it is set
C21_EnableRoundTrip ==
    (th[1].op = "isEnabled" /\ th[1].pc = "done" /\ th[1].ret >= 0)
        => /\ th[1].ret = th[1].v
           /\ th[1].ret = (IF BitAnd(Reg(1, REGISTER_CONTROL), 32768) = 0
                           THEN 1 ELSE 0)

\* C22: evg_getRfPrescaler, called after evg_setRfPrescaler(p) returned
\* success with p in 1..31, returns p - 1, the divider field of RF_CONTROL
C22_RfPrescalerRoundTrip ==
    (th[1].op = "getRfPrescaler" /\ th[1].pc = "done" /\ th[1].ret = 0)
        => /\ th[1].out = th[1].v - 1
           /\ th[1].out = BitAnd(Reg(1, REGISTER_RF_CONTROL), 63)

C22_Witness ==
    /\ th[1].op = "getRfPrescaler" /\ th[1].pc = "done" /\ th[1].ret = 0
    /\ th[1].v = 31 /\ th[1].out = 30
    /\ Reg(1, REGISTER_RF_CONTROL) = 448 + 30

\* C23: an operation called with a sequencer index outside {0, 1} sends no
\* request and returns failure
SequencerOps ==
    {"enableSequencer", "isSequencerEnabled", "setSequencerTriggerSource",
     "setSequencerPrescaler", "getSequencerPrescaler", "triggerSequencer",
     "setEvent", "getEvent", "setTimestamp", "getTimestamp"}

C23_SequencerIndexChecked ==
    \A t \in Threads :
        (th[t].op \in SequencerOps /\ th[t].n \notin {0, 1}
             /\ th[t].pc \notin {"idle", "lock"})
            => /\ th[t].sent = 0
               /\ th[t].pc = "done" => th[t].ret = -1
               /\ Reg(1, REGISTER_SEQ_CLOCK_SEL2) = 0

\* C24: evg_setEvent called with an address above 2047 or an event code above
\* 127 sends no request and returns failure, and no event code above 0x7F
\* is ever stored in the sequence RAM
C24_EventCodeChecked ==
    /\ \A t \in Threads :
           (th[t].op = "setEvent" /\ (th[t].address > 2047 \/ th[t].v > 127)
                /\ th[t].pc \notin {"idle", "lock"})
               => /\ th[t].sent = 0
                  /\ th[t].pc = "done" => th[t].ret = -1
    /\ \A d \in Devs, n \in 0..1, a \in RamAddrs : card[d].ram[n][a].code <= 127
\* C25: evg_open returns NULL for an empty name, a name of 30 characters or
\* more and a name no configured device has; for the name of a configured
\* device it returns a device of exactly that name; it leaves the table as
\* it is
C25_OpenFindsByName ==
    /\ [](shell.fn = "open" =>
            LET name == shell.args.name
                known == \E i \in 1..deviceCount : devices[i].name = name
            IN  /\ (strlen(name) = 0 \/ strlen(name) >= 30 \/ ~known)
                       => shell.handle = NULL
                /\ known => /\ shell.handle \in 1..deviceCount
                            /\ devices[shell.handle].name = name)
    /\ [][shell'.fn = "open" => UNCHANGED <<devices, deviceCount>>]_vars

C25_Witness ==
    /\ shell.fn = "open" /\ shell.args.name = Name2 /\ shell.handle = 2
    /\ deviceCount >= 2 /\ devices[1].name = Name1 /\ devices[2].name = Name2

\* C26: no two configured devices have the same name, and evg_open of a
\* device's name returns that device
C26_NamesUnique ==
    \A i, j \in 1..deviceCount :
        /\ i # j => devices[i].name # devices[j].name
        /\ Search(devices[i].name) = i

\* C27: configure adds a device only when the port is in 1..65535 and the
\* frequency is above zero, and a configure that fails leaves the table as
\* it is
C27_PortAndFrequencyChecked ==
    /\ []((shell.fn = "configure" /\ shell.ret = 0)
             => /\ atoi(shell.args.port) \in 1..65535
                /\ atoi(shell.args.frequency) > 0)
    /\ [][(shell'.fn = "configure" /\ shell'.ret = -1)
             => UNCHANGED <<devices, deviceCount>>]_vars

\* C28: the table never holds more than 10 devices, the slots above
\* deviceCount are untouched, and configure on a full table fails and
\* changes nothing
C28_TableBounded ==
    /\ [](/\ deviceCount <= 10
          /\ DOMAIN devices = 1..10
          /\ \A i \in (deviceCount + 1)..10 : devices[i] = NoDevice)
    /\ [][(deviceCount = 10 /\ shell'.fn = "configure")
             => /\ shell'.ret = -1
                /\ UNCHANGED <<devices, deviceCount>>]_vars

C28_Witness ==
    /\ deviceCount = 10
    /\ shell.fn = "configure" /\ shell.ret = -1
    /\ ~BadArguments(shell.args)

\* C29: when init has returned, every configured device was given a socket:
\* a failure on one device does not keep init from the devices after it
C29_InitWalksAll ==
    (shell.fn = "init" /\ shell.pc = "returned")
        => \A d \in 1..deviceCount : devices[d].socket # 0

\* C30: a thread holds the mutex of its own device only, and an operation on
\* device 2 that waits for the mutex completes whatever the thread on
\* device 1 does
C30_DevicesIndependent ==
    /\ [](\A d \in Devs : mutex[d] # NoThread => th[mutex[d]].dev = d)
    /\ (th[2].pc = "lock") ~> (th[2].pc = "done")

C30_Witness ==
    /\ mutex[1] = 1 /\ InExchange(1) /\ th[1].call.retries > 0
    /\ mutex[2] = 2 /\ InExchange(2)

\* C31: when a thread reads a reply of 12 octets whose status field is not
\* zero, its exchange ends there with success: no request is sent again, a
\* readreg hands the reply's data to its caller, a writecheck goes on to its
\* read-back or compares the data
C31_StatusIgnored ==
    [][\A t \in Threads :
         LET d == th[t].dev
             c == th[t].call
             g == Head(flight[d])
         IN  (/\ InExchange(t) /\ c.phase = "poll"
              /\ flight[d] # <<>> /\ Len(flight'[d]) < Len(flight[d])
              /\ g.len = 12 /\ g.msg.status # 0)
             => /\ th'[t].sent = th[t].sent
                /\ last'[d].answered /\ last'[d].ok
                /\ last'[d].tries = c.retries + 1
                /\ IF c.wc /\ c.fn = "writereg"
                   THEN th'[t].call.fn = "readreg" /\ th'[t].call.retries = 0
                   ELSE /\ th'[t].call = NoCall
                        /\ c.wc => th'[t].status =
                                      (IF Swap16(g.msg.data) = c.wdata THEN 0 ELSE -1)
                        /\ ~c.wc => th'[t].status = 0
                        /\ (~c.wc /\ c.fn = "readreg")
                               => th'[t].data = Swap16(g.msg.data)
      ]_vars

C31_Witness ==
    /\ last[1].answered /\ last[1].ok /\ last[1].rstatus # 0 /\ last[1].len = 12
    /\ last[1].thread = 1 /\ last[1].tries = 2
    /\ th[1].op = "isEnabled" /\ ~InExchange(1) /\ th[1].pc = "read"
    /\ th[1].status = 0 /\ th[1].data = OTHER_CONTENT

\* C33: every attempt of an exchange sends the request the first attempt
\* sent, and only a datagram of exactly 12 octets is taken as the reply
C33_SameRequest ==
    /\ \A t \in Threads :
           InExchange(t)
               => th[t].call.message =
                     (IF th[t].call.fn = "readreg"
                      THEN ReadRequest(th[t].call.reg)
                      ELSE WriteRequest(th[t].call.reg, th[t].call.wdata))
    /\ \A d \in Devs : last[d].answered => last[d].len = 12
\* the i-th exchange of evg_setCounterPrescaler(dev, c, p), in the order made
CounterStep(i, c, p) ==
    [reg    |-> IF i \in {1, 2, 5, 6} THEN REGISTER_MXC_CONTROL
                ELSE REGISTER_MXC_PRESCALER,
     access |-> IF i % 2 = 1 THEN ACCESS_WRITE ELSE ACCESS_READ,
     data   |-> CASE i \in {1, 2} -> MXC_CONTROL_HIGH_WORD + c
                  [] i \in {3, 4} -> p \div 65536
                  [] i \in {5, 6} -> c
                  [] OTHER -> p % 65536]

\* C32: evg_setCounterPrescaler(dev, c, p) with c in 0..7 makes four verified
\* writes in this order: MXC_CONTROL = 0x0008 | c, MXC_PRESCALER = p >> 16,
\* MXC_CONTROL = c, MXC_PRESCALER = p & 0xFFFF.  Every exchange on the device
\* while the operation holds the lock is the next one of that sequence, made
\* by the calling thread, and the operation returns 0 only after all of them.
C32_CounterPrescalerWrites ==
    \A t \in Threads :
        (th[t].op = "setCounterPrescaler" /\ Inside(t)
         /\ th[t].n < NUMBER_OF_COUNTERS) =>
            LET h == hist[th[t].dev]
                k == Len(h)
            IN  /\ k <= 8
                /\ \A i \in 1..k :
                       LET e == h[k - i + 1]
                           x == CounterStep(i, th[t].n, th[t].v)
                       IN  /\ e.thread = t
                           /\ e.reg = x.reg
                           /\ e.access = x.access
                           /\ (e.ok => e.data = x.data)
                /\ (th[t].pc = "low" /\ ~InExchange(t) /\ th[t].status = 0) =>
                       (k = 8 /\ \A i \in 1..8 : h[i].ok)

C32_Witness ==
    \E t \in Threads :
        /\ th[t].op = "setCounterPrescaler"
        /\ th[t].pc = "low" /\ ~InExchange(t) /\ th[t].status = 0
        /\ th[t].n = 5
        /\ Len(hist[th[t].dev]) = 8
        /\ hist[th[t].dev][8].data = 13
        /\ hist[th[t].dev][5].data = 1
        /\ hist[th[t].dev][1].data = 9029
        /\ card[th[t].dev].regs[REGISTER_MXC_PRESCALER] = 9029
        /\ \E u \in Threads : u # t /\ th[u].pc = "lock"
\* both threads returned success from their calls on the same device
BothSucceeded(op1, op2) ==
    /\ th[1].op = op1 /\ th[2].op = op2
    /\ th[1].dev = th[2].dev
    /\ th[1].pc = "done" /\ th[2].pc = "done"
    /\ th[1].ret = 0 /\ th[2].ret = 0

\* C34: the read-modify-write of a settings register is atomic.  When
\* evg_setRfPrescaler(dev, p) and evg_setRfClockSource(dev, src), called at
\* the same time, both returned success, RF_CONTROL holds the divider p - 1
\* and the source bits of src; when evg_setAcPrescaler(dev, p) and
\* evg_setAcSyncSource(dev, AC_SOURCE_EVENT) both did, AC_ENABLE holds the
\* divider p and the sync bit cleared.
C34_SettingsAtomic ==
    LET regs == card[th[1].dev].regs
    IN  /\ BothSucceeded("setRfPrescaler", "setRfClockSource") =>
              /\ BitAnd(regs[REGISTER_RF_CONTROL], RF_CONTROL_DIVIDER_MASK)
                     = th[1].v - 1
              /\ BitAnd(regs[REGISTER_RF_CONTROL], RF_CONTROL_EXTERNAL)
                     = IF th[2].v = RF_SOURCE_INTERNAL THEN 0
                       ELSE RF_CONTROL_EXTERNAL
        /\ (BothSucceeded("setAcPrescaler", "setAcSyncSource")
             /\ th[2].v = AC_SOURCE_EVENT) =>
              /\ BitAnd(regs[REGISTER_AC_ENABLE], AC_ENABLE_DIVIDER_MASK)
                     = th[1].v
              /\ BitAnd(regs[REGISTER_AC_ENABLE], AC_ENABLE_SYNC) = 0

\* both pairs of calls returned success on registers that held other values:
\* RF_CONTROL went from 0x01C5 to divider 3 and the internal source
C34_Witness ==
    /\ BothSucceeded("setRfPrescaler", "setRfClockSource")
    /\ th[1].v = 4 /\ th[2].v = RF_SOURCE_INTERNAL
    /\ card[1].regs[REGISTER_RF_CONTROL] = 3
    /\ card[1].regs[REGISTER_AC_ENABLE] = 4146

\* C35: when evg_setEvent(dev, n, a1, c1) and evg_setEvent(dev, n, a2, c2)
\* with a1 # a2, called by two threads at the same time, both returned
\* success, the sequence RAM of sequencer n holds c1 at a1 and c2 at a2, and
\* no other entry was written.
C35_EventsAtomic ==
    (BothSucceeded("setEvent", "setEvent") /\ th[1].n = th[2].n
     /\ th[1].address # th[2].address) =>
        LET ram == card[th[1].dev].ram
        IN  /\ ram[th[1].n][th[1].address].code = th[1].v
            /\ ram[th[2].n][th[2].address].code = th[2].v
            /\ \A n \in 0..1 : \A a \in RamAddrs :
                   (n # th[1].n \/ a \notin {th[1].address, th[2].address}) =>
                       ram[n][a] = CardInit.ram[n][a]

C35_Witness ==
    /\ BothSucceeded("setEvent", "setEvent")
    /\ th[1].address = 1 /\ th[2].address = 2047
    /\ card[1].ram[0][1].code = 5
    /\ card[1].ram[0][2047].code = 9
\* C37: a thread exchanges messages with a device only on a socket init
\* opened for that device; once init has returned, no operation on a handle
\* of evg_open sends on or reads from another descriptor, such as the 0 of a
\* device init did not reach.
C37_OwnSocketOnly ==
    \A t \in Threads : InExchange(t) => InitOpened(th[t].dev)
\* the register calls an operation makes at most, a writecheck being two
RegisterSteps(op) == IF op = "setTimestamp" THEN 6 ELSE 1

C39_TriggerSourceRead ==
    \A t \in Threads :
        (th[t].pc = "done" /\ th[t].op = "getSequencerTriggerSource"
           /\ th[t].n \in {0, 1}) =>
            /\ th[t].ret = 0
            /\ th[t].out =
                  IF BitAnd(Reg(th[t].dev, REGISTER_AC_ENABLE),
                            IF th[t].n = 0 THEN AC_ENABLE_SEQ0 ELSE AC_ENABLE_SEQ1) # 0
                  THEN TRIGGER_AC ELSE TRIGGER_SOFT
\* C36: the device support never keeps, and so never passes to the driver,
\* the null handle evg_open returns for an unknown name; an operation called
\* with the null handle locks no mutex and returns.
C36_NullHandleRejected ==
    /\ record.dpvt => record.device # NULL
    /\ record.worker \notin {"lockNull", "crashed"}

\* C40: the completion pass of ioRecord returns what the driver call of that
\* request returned (also when an earlier request failed); PACT is set
\* exactly while the request's one worker thread exists.
C40_CompletionReflectsRequest ==
    /\ (record.type = "longin" /\ record.pass = "completion") =>
           (record.ret = 0 <=> th[1].ret = 0)
    /\ record.workers = (IF record.pact THEN 1 ELSE 0)
    /\ record.pact <=> record.worker # "none"
====
